---- MODULE Spec2Model ----
(***************************************************************************)
(* Model of HTMLTableKit (src/src/HTMLTableKit.ts): a typed in-memory      *)
(* table object parsed from an HTML table, kept in step with the DOM by    *)
(* synchronous and asynchronous add / update / delete operations.          *)
(*                                                                         *)
(* JavaScript values are tagged records [t, v]: t is the JS type           *)
(* ("str", "num", "bool", "null", "undef") and v is the text String(value) *)
(* produces.  The DOM table is a record: an optional <thead>, an optional  *)
(* <tbody>, and the <tr> elements that live in the <tbody> (or directly    *)
(* under <table> when there is no <tbody>).                                *)
(***************************************************************************)
EXTENDS Integers, Sequences, FiniteSets, TLC

\* ---------------------------------------------------------------- bounds
MaxRows == 3
MaxNextId == 3
MaxPending == 2
MaxInitRows == 2
MaxCalls == 3
MaxColRows == 3
MaxShapeRows == 2
MaxParseCalls == 2

\* ------------------------------------------------------- generic helpers
Min(a, b) == IF a < b THEN a ELSE b

Max(a, b) == IF a > b THEN a ELSE b

Range(s) == {s[i] : i \in 1..Len(s)}

SeqsUpTo(S, n) == UNION {[1..k -> S] : k \in 0..n}

RemoveAt(s, i) == [j \in 1..(Len(s) - 1) |-> IF j < i THEN s[j] ELSE s[j + 1]]

\* ------------------------------------------------------------ JS values
S(x) == [t |-> "str", v |-> x]

N(x) == [t |-> "num", v |-> x]

B(x) == [t |-> "bool", v |-> x]

Null == [t |-> "null", v |-> "null"]

Undef == [t |-> "undef", v |-> "undefined"]

\* JS truthiness (the `||` and `!result` tests of the source)
Truthy(val) ==
    ~ \/ val.t \in {"null", "undef"}
      \/ val.t = "str" /\ val.v = ""
      \/ val.t = "num" /\ val.v \in {"0", "NaN"}
      \/ val.t = "bool" /\ val.v = "false"

\* String(value): the text a value renders to
String(val) == val.v

\* a merge in which the target's values win over the source's
ObjectAssignKeep(target, source) ==
    [k \in (DOMAIN target) \cup (DOMAIN source) |->
        IF k \in DOMAIN target THEN target[k] ELSE source[k]]

\* Object.assign(target, source) on plain objects (maps key -> value)
ObjectAssign(target, source) ==
    [k \in (DOMAIN target) \cup (DOMAIN source) |->
        IF k \in DOMAIN source THEN source[k] ELSE target[k]]

\* row[key]: undefined when the key is absent
Get(obj, k) == IF k \in DOMAIN obj THEN obj[k] ELSE Undef

EmptyObj == [k \in {} |-> Undef]

\* ------------------------------------------------------ text primitives
\* The cell texts of the model; every text function below is tabulated on
\* them.
NumericTexts == {"0", "1", "2", "3", "30", "1.5", "07"}

AngleTexts == {"<b>x</b>", "<i>"}

\* text.trim()
Trim(x) == CASE x = " " -> "" [] x = " a" -> "a" [] OTHER -> x

\* text.toLowerCase()
ToLowerCase(x) ==
    CASE x = "Name" -> "name"
      [] x = "Age" -> "age"
      [] x = "ID" -> "id"
      [] x = "TRUE" -> "true"
      [] x = "True" -> "true"
      [] x = "FALSE" -> "false"
      [] OTHER -> x

\* !isNaN(Number(text)): Number("") is 0
IsNumeric(x) == x = "" \/ x \in NumericTexts

\* a text of 101 characters
LongText ==
    "xxxxxxxxxxxxxxxxxxxxxxxxxxxxxxxxxxxxxxxxxxxxxxxxxx" \o
    "xxxxxxxxxxxxxxxxxxxxxxxxxxxxxxxxxxxxxxxxxxxxxxxxxxx"

\* value.includes('<') || value.includes('>') || value.length > 100
HasComplexContent(x) == x \in AngleTexts \/ x = LongText

\* value.includes('.')
HasDot(x) == x \in {"1.5"}

\* String(parseInt(text, 10))
ParseInt(x) == CASE x = "1.5" -> "1" [] x = "07" -> "7" [] OTHER -> x

\* String(parseFloat(text))
ParseFloat(x) == CASE x = "07" -> "7" [] OTHER -> x

\* textContent of a cell after `innerHTML = value`: markup is dropped
InnerHTMLText(x) == CASE x = "<b>x</b>" -> "x" [] x = "<i>" -> "" [] OTHER -> x

\* `row_${n}`
RowIdOf(n) == "row_" \o ToString(n)

\* `column${i}`
ColumnName(i) == "column" \o ToString(i)

\* ------------------------------------------------------------------ DOM
\* A cell is [th, text]; a <tr> is [node, hasId, dataId, cells], node being
\* the identity of the element (two <tr> with equal content are still two
\* elements).  The table record's field fresh is the identity the next
\* created element gets.
Td(x) == [th |-> FALSE, text |-> x]

Th(x) == [th |-> TRUE, text |-> x]

Tr(node, has, id, cells) ==
    [node |-> node, hasId |-> has, dataId |-> id, cells |-> cells]

\* row.querySelectorAll('th')
ThCells(tr) == SelectSeq(tr.cells, LAMBDA c : c.th)

\* row.querySelectorAll('td')
TdCells(tr) == SelectSeq(tr.cells, LAMBDA c : ~c.th)

\* cell.textContent?.trim() || ''
CellText(c) == Trim(c.text)

\* tbody ? tbody.querySelectorAll('tr') : table.querySelectorAll('tr')
BodyTrs(d) == IF d.hasTbody THEN d.rows ELSE d.thead \o d.rows

\* querySelector('thead tr')
TheadTr(d) == IF d.hasThead /\ Len(d.thead) > 0 THEN <<d.thead[1]>> ELSE <<>>

\* querySelector('tr:first-child'): first <tr>, in document order, that is
\* the first child of its parent (0 or 1 element)
FirstChildTr(d) ==
    IF d.hasThead /\ Len(d.thead) > 0 THEN <<d.thead[1]>>
    ELSE IF d.hasTbody THEN (IF Len(d.rows) > 0 THEN <<d.rows[1]>> ELSE <<>>)
    ELSE IF ~d.hasThead /\ Len(d.rows) > 0 THEN <<d.rows[1]>>
    ELSE <<>>

\* querySelector('tbody tr, tr'): any <tr> of the table
AnyTr(d) ==
    IF Len(d.thead \o d.rows) > 0 THEN <<(d.thead \o d.rows)[1]>> ELSE <<>>

\* isRowHeader: every cell non-empty and not numeric
isRowHeader(cells) ==
    \A i \in 1..Len(cells) :
        CellText(cells[i]) # "" /\ ~IsNumeric(CellText(cells[i]))

hasHeaderRow(d) ==
    IF d.hasThead THEN TRUE
    ELSE IF FirstChildTr(d) # <<>>
         THEN IF Len(ThCells(FirstChildTr(d)[1])) > 0 THEN TRUE
              ELSE isRowHeader(TdCells(FirstChildTr(d)[1]))
         ELSE FALSE

\* --------------------------------------------------------------- parser
Header(n, ty) == [name |-> n, type |-> ty]

\* headers named from the cells' text, `column<i>` for an empty text
NamedHeaders(cells) ==
    [i \in 1..Len(cells) |->
        Header(ToLowerCase(IF CellText(cells[i]) # "" THEN CellText(cells[i])
                           ELSE ColumnName(i)), "string")]

createNumericHeaders(count) == [i \in 1..count |-> Header(ColumnName(i), "string")]

parseHeaders(d) ==
    LET hr == IF TheadTr(d) # <<>> THEN TheadTr(d) ELSE FirstChildTr(d) IN
    IF hr # <<>>
    THEN IF Len(ThCells(hr[1])) > 0 THEN NamedHeaders(ThCells(hr[1]))
         ELSE IF Len(TdCells(hr[1])) > 0
              THEN IF isRowHeader(TdCells(hr[1]))
                   THEN NamedHeaders(TdCells(hr[1]))
                   ELSE createNumericHeaders(Len(TdCells(hr[1])))
              ELSE <<>>
    ELSE IF AnyTr(d) # <<>> THEN createNumericHeaders(Len(AnyTr(d)[1].cells))
         ELSE <<>>

\* a detection that knows only the exact words true and false as booleans
detectColumnTypeStrictBool(values) ==
    LET numericValues == SelectSeq(values, LAMBDA x : x # "") IN
    IF Len(values) = 0 THEN "string"
    ELSE IF \E i \in 1..Len(values) : HasComplexContent(values[i]) THEN "free"
    ELSE IF \A i \in 1..Len(values) : values[i] \in {"true", "false"}
         THEN "boolean"
    ELSE IF Len(numericValues) = 0 THEN "string"
    ELSE IF ~ \A i \in 1..Len(numericValues) : IsNumeric(numericValues[i])
         THEN "string"
    ELSE IF \E i \in 1..Len(numericValues) : HasDot(numericValues[i])
         THEN "decimal"
    ELSE "number"

\* a detection whose Boolean test needs at least one true / false value
detectColumnTypeNonEmptyBool(values) ==
    LET numericValues == SelectSeq(values, LAMBDA x : x # "") IN
    IF Len(values) = 0 THEN "string"
    ELSE IF \E i \in 1..Len(values) : HasComplexContent(values[i]) THEN "free"
    ELSE IF /\ Len(numericValues) > 0
            /\ \A i \in 1..Len(values) :
                   values[i] = "" \/ ToLowerCase(values[i]) \in {"true", "false"}
         THEN "boolean"
    ELSE IF Len(numericValues) = 0 THEN "string"
    ELSE IF ~ \A i \in 1..Len(numericValues) : IsNumeric(numericValues[i])
         THEN "string"
    ELSE IF \E i \in 1..Len(numericValues) : HasDot(numericValues[i])
         THEN "decimal"
    ELSE "number"

detectColumnType(values) ==
    LET numericValues == SelectSeq(values, LAMBDA x : x # "") IN
    IF Len(values) = 0 THEN "string"
    ELSE IF \E i \in 1..Len(values) : HasComplexContent(values[i]) THEN "free"
    ELSE IF \A i \in 1..Len(values) :
               values[i] = "" \/ ToLowerCase(values[i]) \in {"true", "false"}
         THEN "boolean"
    ELSE IF Len(numericValues) = 0 THEN "string"
    ELSE IF ~ \A i \in 1..Len(numericValues) : IsNumeric(numericValues[i])
         THEN "string"
    ELSE IF \E i \in 1..Len(numericValues) : HasDot(numericValues[i])
         THEN "decimal"
    ELSE "number"

\* a coercion that gives null for every empty cell, booleans included
parseValueNullForEmpty(value, type) ==
    CASE value = "" /\ type \in {"number", "decimal", "boolean"} -> Null
      [] type = "number" -> N(ParseInt(value))
      [] type = "decimal" -> N(ParseFloat(value))
      [] type = "boolean" -> B(IF ToLowerCase(value) = "true" THEN "true" ELSE "false")
      [] OTHER -> S(value)

parseValue(value, type) ==
    CASE type = "number" -> IF value = "" THEN Null ELSE N(ParseInt(value))
      [] type = "decimal" -> IF value = "" THEN Null ELSE N(ParseFloat(value))
      [] type = "boolean" -> B(IF ToLowerCase(value) = "true" THEN "true" ELSE "false")
      [] OTHER -> S(value)

\* the data rows parseRows walks: the body rows after the header offset
DataRows(d) ==
    LET trs == BodyTrs(d)
        start == IF hasHeaderRow(d) THEN 1 ELSE 0
    IN  [i \in 1..Max(Len(trs) - start, 0) |-> trs[i + start]]

\* columnData[colIndex]: the texts of one column over all data rows
ColumnData(d, nHeaders, col) ==
    LET drs == DataRows(d)
        have == SelectSeq([i \in 1..Len(drs) |-> i],
                          LAMBDA i : col <= Len(drs[i].cells))
    IN  [j \in 1..Len(have) |-> CellText(drs[have[j]].cells[col])]

\* headers with the types parseRows assigns
TypedHeaders(d) ==
    LET hs == parseHeaders(d) IN
    [i \in 1..Len(hs) |-> Header(hs[i].name, detectColumnType(ColumnData(d, Len(hs), i)))]

\* generateRowId: the id (index is 0-based)
generateRowId(tr, index) ==
    IF tr.hasId /\ tr.dataId # "" THEN tr.dataId ELSE RowIdOf(index)

\* generateRowId's effect on nextRowId, folded over the data rows
RECURSIVE NextIdAfter(_, _, _)
NextIdAfter(drs, k, next) ==
    IF k > Len(drs) THEN next
    ELSE NextIdAfter(drs, k + 1,
                     IF drs[k].hasId /\ drs[k].dataId # "" THEN next
                     ELSE Max(next, k))

\* one parsed row object: id first, then one entry per cell that has a
\* header; a later column with the same name (or named "id") overwrites
ParsedRow(tr, index, hs) ==
    LET n == Min(Len(tr.cells), Len(hs))
        last(k) == CHOOSE i \in 1..n : hs[i].name = k /\ \A j \in 1..n : hs[j].name = k => j <= i
    IN  [k \in {"id"} \cup {hs[i].name : i \in 1..n} |->
            IF \E i \in 1..n : hs[i].name = k
            THEN parseValue(CellText(tr.cells[last(k)]), hs[last(k)].type)
            ELSE S(generateRowId(tr, index))]

parseRows(d) ==
    LET drs == DataRows(d)
        hs == TypedHeaders(d)
    IN  [i \in 1..Len(drs) |-> ParsedRow(drs[i], i - 1, hs)]

\* a counter that is advanced once for every row given a synthetic id
parseNextRowIdCounting(d, next) ==
    next + Cardinality({i \in 1..Len(DataRows(d)) :
                            ~(DataRows(d)[i].hasId /\ DataRows(d)[i].dataId # "")})

\* a parse that starts the counter again from zero
parseNextRowIdReset(d, next) == NextIdAfter(DataRows(d), 1, 0)

\* nextRowId after parsing tree d, starting from counter value next
parseNextRowId(d, next) == NextIdAfter(DataRows(d), 1, next)

\* a hidden input is [id, name, value]; an absent attribute is ""
HiddenInput(id, name, value) == [id |-> id, name |-> name, value |-> value]

\* htmlInput.id || htmlInput.name
HiddenKey(inp) == IF inp.id # "" THEN inp.id ELSE inp.name

\* a parse that rejects every hidden input without an id
parseHiddenThrowsNoId(d) == \E i \in 1..Len(d.inputs) : d.inputs[i].id = ""

\* parseHiddenInputs throws on an input without id and name
parseHiddenThrows(d) == \E i \in 1..Len(d.inputs) : HiddenKey(d.inputs[i]) = ""

\* tableObject.hidden: key -> value, a later input with the same key wins
parseHiddenInputs(d) ==
    LET keys == {HiddenKey(d.inputs[i]) : i \in 1..Len(d.inputs)}
        lastOf(k) == CHOOSE i \in 1..Len(d.inputs) :
                        /\ HiddenKey(d.inputs[i]) = k
                        /\ \A j \in (i + 1)..Len(d.inputs) : HiddenKey(d.inputs[j]) # k
    IN  [k \in keys |-> d.inputs[lastOf(k)].value]

\* the id, name and hidden fields parseTable gives the table object
parseMeta(d) == [id |-> d.id, name |-> d.name, hidden |-> parseHiddenInputs(d)]

\* ------------------------------------------------------------- renderer
getDefaultValue(type) ==
    CASE type = "number" -> N("0")
      [] type = "decimal" -> N("0")
      [] type = "boolean" -> B("false")
      [] OTHER -> S("")

\* the text a cell shows after the renderer writes value into it:
\* innerHTML for a 'free' column (null becomes the empty string, markup is
\* not text), textContent = String(value) otherwise
RenderText(value, type) ==
    IF type = "free"
    THEN (IF value.t = "null" THEN "" ELSE InnerHTMLText(String(value)))
    ELSE String(value)

\* the <tr> addRowToDOM creates
NewTr(row, hs, node) ==
    Tr(node, TRUE, String(Get(row, "id")),
       [i \in 1..Len(hs) |-> Td(RenderText(Get(row, hs[i].name), hs[i].type))])

\* a render that also writes the new row's id into a hidden input
addRowToDOMWithInput(d, row, hs) ==
    [d EXCEPT !.rows = Append(@, NewTr(row, hs, d.fresh)), !.fresh = @ + 1,
              !.inputs = Append(@, HiddenInput("last", "", String(Get(row, "id"))))]

addRowToDOM(d, row, hs) ==
    [d EXCEPT !.rows = Append(@, NewTr(row, hs, d.fresh)), !.fresh = @ + 1]

\* position (1-based, in BodyTrs) of the fragment update and delete address
\* for the model row at 1-based index idx: rows[startIndex + rowIndex]
DomPos(d, idx) == (IF hasHeaderRow(d) THEN 1 ELSE 0) + idx

\* replace / remove the <tr> at position pos of BodyTrs
SetBodyTr(d, pos, tr) ==
    IF d.hasTbody THEN [d EXCEPT !.rows[pos] = tr]
    ELSE IF pos <= Len(d.thead) THEN [d EXCEPT !.thead[pos] = tr]
    ELSE [d EXCEPT !.rows[pos - Len(d.thead)] = tr]

RemoveBodyTr(d, pos) ==
    IF d.hasTbody THEN [d EXCEPT !.rows = RemoveAt(@, pos)]
    ELSE IF pos <= Len(d.thead) THEN [d EXCEPT !.thead = RemoveAt(@, pos)]
    ELSE [d EXCEPT !.rows = RemoveAt(@, pos - Len(d.thead))]

\* the cells of a <tr> after updateRowInDOM rewrote them
RewrittenTr(tr, row, hs) ==
    [tr EXCEPT !.cells =
        [i \in 1..Len(tr.cells) |->
            IF i <= Len(hs)
            THEN [tr.cells[i] EXCEPT !.text = RenderText(Get(row, hs[i].name), hs[i].type)]
            ELSE tr.cells[i]]]

updateRowInDOM(d, row, idx, hs) ==
    LET pos == DomPos(d, idx) IN
    IF pos > Len(BodyTrs(d)) THEN d
    ELSE SetBodyTr(d, pos, RewrittenTr(BodyTrs(d)[pos], row, hs))

deleteRowFromDOM(d, idx) ==
    LET pos == DomPos(d, idx) IN
    IF pos > Len(BodyTrs(d)) THEN d ELSE RemoveBodyTr(d, pos)

\* the fragment position a render touched, 0 when there was no fragment
TouchedPos(d, idx) == IF DomPos(d, idx) > Len(BodyTrs(d)) THEN 0 ELSE DomPos(d, idx)

\* ---------------------------------------------------------------- state
VARIABLES
    dom,        \* the node the locator resolves to: [tag, id, name, inputs,
                \* hasThead, thead, hasTbody, rows, fresh]
    meta,       \* tableObject.id, tableObject.name and tableObject.hidden
    headers,    \* tableObject.headers
    headerAtParse, \* what hasHeaderRow() returned in the parse that built headers
    rows,       \* tableObject.rows: the row objects, in order
    frag,       \* for each row of rows, the <tr> element it was parsed from or
                \* rendered into when it was created
    nextRowId,  \* the synthetic-id counter
    issued,     \* the ids the add calls without a (truthy) caller id gave their
                \* rows, in call order
    pending,    \* async calls suspended at their `await`
    detached,   \* row objects no longer in tableObject.rows that a suspended
                \* updateRowAsync still holds a reference to
    calls,      \* number of steps taken so far (bounds the runs explored)
    last        \* the step just taken: which call, its arguments and outcome

vars == <<dom, meta, headers, headerAtParse, rows, frag, nextRowId, issued, pending, detached,
          calls, last>>

MaxDomRows == MaxRows + 1

\* -------------------------------------------------- trees at construction
HeaderTr == Tr(0, FALSE, "", <<Th("Name"), Th("Age")>>)

InitTrs ==
    {HeaderTr,
     Tr(0, TRUE, "r1", <<Td("a"), Td("1")>>),
     Tr(0, FALSE, "", <<Td("1"), Td("a")>>)}

\* the elements of a tree are numbered in document order
InitTrees ==
    {[hasThead |-> th, thead |-> IF th THEN <<HeaderTr>> ELSE <<>>,
      hasTbody |-> tb,
      rows |-> [i \in 1..Len(rs) |-> [rs[i] EXCEPT !.node = i]],
      fresh |-> Len(rs) + 1, tag |-> "table", id |-> "t", name |-> "", inputs |-> <<>>] :
        th \in BOOLEAN, tb \in BOOLEAN, rs \in SeqsUpTo(InitTrs, MaxInitRows)}

\* ------------------------------------- trees the parser is exercised on
\* cell texts of the column probes
ParseTexts == {"", "1", "2", "3", "1.5", "true", "false", "<b>x</b>", "a"}

\* a one-column table (header cell "Name") over every sequence of texts
ProbeTrees ==
    {[hasThead |-> FALSE, thead |-> <<>>, hasTbody |-> FALSE,
      rows |-> <<Tr(1, FALSE, "", <<Th("Name")>>)>> \o
               [i \in 1..Len(ts) |-> Tr(i + 1, FALSE, "", <<Td(ts[i])>>)],
      fresh |-> Len(ts) + 2, tag |-> "table", id |-> "t", name |-> "", inputs |-> <<>>] :
        ts \in SeqsUpTo(ParseTexts, MaxColRows)}

\* a <thead> row written with plain cells
TdHeadTr == Tr(0, FALSE, "", <<Td("1"), Td("a")>>)

ParseTheads == {<<>>, <<HeaderTr>>, <<TdHeadTr>>}

ShapeTrs ==
    {Tr(0, FALSE, "", <<Th("Name"), Th(" ")>>),
     Tr(0, FALSE, "", <<Th("ID"), Td("x")>>),
     Tr(0, FALSE, "", <<Td("Name"), Td(" a")>>),
     Tr(0, FALSE, "", <<Td("1"), Td("a")>>),
     Tr(0, TRUE, "row_0", <<Td("a"), Td("2")>>),
     Tr(0, TRUE, "row_1", <<Td("a"), Td("1.5")>>),
     Tr(0, TRUE, "", <<Td("TRUE"), Td("07")>>),
     Tr(0, FALSE, "", <<Td(LongText)>>)}

ShapeTrees ==
    {[hasThead |-> th # <<>>, thead |-> th, hasTbody |-> tb,
      rows |-> [i \in 1..Len(rs) |-> [rs[i] EXCEPT !.node = i]],
      fresh |-> Len(rs) + 1, tag |-> "table", id |-> "t", name |-> "", inputs |-> <<>>] :
        th \in ParseTheads, tb \in BOOLEAN, rs \in SeqsUpTo(ShapeTrs, MaxShapeRows)}

ParseTrees == ProbeTrees \cup ShapeTrees

\* ------------------------------------------------ suspended-call records
\* ref is the row object an updateRowAsync captured: the object at index at
\* of rows (live) or of detached.
NoRef == [live |-> FALSE, at |-> 0]

Call(op, id, idx, ref, row, updates) ==
    [op |-> op, id |-> id, rowIndex |-> idx, ref |-> ref, row |-> row,
     updates |-> updates]

IsLiveRef(p) == p.op = "upd" /\ p.ref.live

IsDetRef(p) == p.op = "upd" /\ ~p.ref.live

\* drop the detached objects no suspended call refers to any more
CompactDetached(det, pnd) ==
    LET used == {pnd[i].ref.at : i \in {j \in 1..Len(pnd) : IsDetRef(pnd[j])}}
        keep == SelectSeq([j \in 1..Len(det) |-> j], LAMBDA j : j \in used)
    IN  [j \in 1..Len(keep) |-> det[keep[j]]]

CompactPending(det, pnd) ==
    LET used == {pnd[i].ref.at : i \in {j \in 1..Len(pnd) : IsDetRef(pnd[j])}} IN
    [i \in 1..Len(pnd) |->
        IF IsDetRef(pnd[i])
        THEN [pnd[i] EXCEPT !.ref.at = Cardinality({k \in used : k <= @})]
        ELSE pnd[i]]

\* rows.splice(idx, 1) as seen by the references suspended calls hold: the
\* removed object becomes detached, later objects move up by one
DetachedAfterSplice(rws, det, pnd, idx) ==
    IF \E i \in 1..Len(pnd) : IsLiveRef(pnd[i]) /\ pnd[i].ref.at = idx
    THEN Append(det, rws[idx]) ELSE det

PendingAfterSplice(det, pnd, idx) ==
    [i \in 1..Len(pnd) |->
        IF IsLiveRef(pnd[i])
        THEN IF pnd[i].ref.at = idx
             THEN [pnd[i] EXCEPT !.ref = [live |-> FALSE, at |-> Len(det) + 1]]
             ELSE IF pnd[i].ref.at > idx
                  THEN [pnd[i] EXCEPT !.ref.at = @ - 1]
                  ELSE pnd[i]
        ELSE pnd[i]]

\* refresh() replaces tableObject: every captured row object is detached
LiveRefs(pnd) == {pnd[i].ref.at : i \in {j \in 1..Len(pnd) : IsLiveRef(pnd[j])}}

DetachedAfterRefresh(rws, det, pnd) ==
    LET keep == SelectSeq([j \in 1..Len(rws) |-> j], LAMBDA j : j \in LiveRefs(pnd))
    IN  det \o [j \in 1..Len(keep) |-> rws[keep[j]]]

PendingAfterRefresh(det, pnd) ==
    [i \in 1..Len(pnd) |->
        IF IsLiveRef(pnd[i])
        THEN [pnd[i] EXCEPT !.ref =
                [live |-> FALSE,
                 at |-> Len(det) + Cardinality({k \in LiveRefs(pnd) : k <= pnd[i].ref.at})]]
        ELSE pnd[i]]

\* ------------------------------------------------------- history record
Step(op, phase, why, id, arg, res, ret, idx, pos) ==
    [op |-> op, phase |-> phase, why |-> why, id |-> id, arg |-> arg,
     res |-> res, ret |-> ret, idx |-> idx, pos |-> pos, dec |-> "none",
     slot |-> 0]

\* the step of a call resuming after its decision function resolved; dec
\* records what the decision was and slot which suspended call resumed
Resumed(step, approved, i) ==
    [step EXCEPT !.dec = IF approved THEN "truthy" ELSE "falsy", !.slot = i]

\* a call that goes on whatever the decision was
CancelledNever(approved) == FALSE

\* `if (!result)` / `if (!shouldDelete)`: a falsy decision cancels the call
Cancelled(approved) == ~approved

\* the decision's value merged over the caller's proposal
AppliedUpdatesMerged(updates, result) ==
    [k \in (DOMAIN updates) \cup (DOMAIN result) |->
        IF k \in DOMAIN result THEN result[k] ELSE updates[k]]

\* `updates = result`: the decision's value is the update set that is applied
AppliedUpdates(updates, result) == result

\* ------------------------------------------------------------ operations
\* a lookup that falls back to the last row when no id matches
FindIndexOrLast(rws, id) ==
    IF \E i \in 1..Len(rws) : rws[i]["id"] = id
    THEN CHOOSE i \in 1..Len(rws) :
            /\ rws[i]["id"] = id
            /\ \A j \in 1..(i - 1) : rws[j]["id"] # id
    ELSE Len(rws)

\* rows.findIndex(row => row.id === id), 1-based, 0 when there is none
FindIndex(rws, id) ==
    IF \E i \in 1..Len(rws) : Get(rws[i], "id") = id
    THEN CHOOSE i \in 1..Len(rws) :
            /\ Get(rws[i], "id") = id
            /\ \A j \in 1..(i - 1) : Get(rws[j], "id") # id
    ELSE 0

\* a candidate whose caller-supplied values are turned into strings
CandidateRowStringified(rowData, hs, next) ==
    LET idv == IF "id" \in DOMAIN rowData /\ rowData["id"].v # ""
               THEN rowData["id"] ELSE S(RowIdOf(next))
        names == {hs[i].name : i \in 1..Len(hs)}
    IN  [k \in {"id"} \cup (DOMAIN rowData) \cup names |->
            IF k = "id" THEN idv
            ELSE IF k \in DOMAIN rowData THEN S(rowData[k].v)
            ELSE S("")]

\* { id: rowData.id || `row_${nextRowId++}`, ...rowData } with the missing
\* columns filled with defaults
UsesCounter(rowData) == ~Truthy(Get(rowData, "id"))

CandidateRow(rowData, hs, next) ==
    LET base == ObjectAssign([k \in {"id"} |->
                    IF UsesCounter(rowData) THEN S(RowIdOf(next)) ELSE rowData["id"]],
                    rowData)
        missing == {hs[i].name : i \in 1..Len(hs)} \ DOMAIN base
        typeOf(k) == hs[CHOOSE i \in 1..Len(hs) : hs[i].name = k /\
                        \A j \in 1..(i - 1) : hs[j].name # k].type
    IN  ObjectAssign(base, [k \in missing |-> getDefaultValue(typeOf(k))])

\* ------------------------------------------------- inputs of the calls
\* the caller's arguments are drawn from these sets; keys are the current
\* column names
Col(hs, i) == hs[i].name

AddInputs(hs) ==
    {EmptyObj, [k \in {"id"} |-> S("r1")]}
    \cup (IF Len(hs) >= 1 THEN {[k \in {Col(hs, 1)} |-> S("b")]} ELSE {})
    \cup (IF Len(hs) >= 2
          THEN {[k \in {Col(hs, 1), Col(hs, 2)} |->
                    IF k = Col(hs, 1) THEN S("b") ELSE N("30")]}
          ELSE {})

UpdateInputs(hs) ==
    (IF Len(hs) >= 1 THEN {[k \in {Col(hs, 1)} |-> S("b")]} ELSE {EmptyObj})
    \cup (IF Len(hs) >= 2 THEN {[k \in {Col(hs, 2)} |-> N("2")]} ELSE {})

\* ids a caller looks rows up by: those present and one that is not
LookupIds(rws) == {Get(rws[i], "id") : i \in 1..Len(rws)} \cup {S("zz")}

\* what a decision function may resolve to
AddDecisions(hs, candidate) ==
    {<<FALSE, EmptyObj>>, <<TRUE, candidate>>}
    \cup (IF Len(hs) >= 1 THEN {<<TRUE, [k \in {Col(hs, 1)} |-> S("Y")]>>} ELSE {})

UpdateDecisions(hs, updates) ==
    {<<FALSE, EmptyObj>>, <<TRUE, updates>>}
    \cup (IF Len(hs) >= 2 THEN {<<TRUE, [k \in {Col(hs, 2)} |-> N("2")]>>} ELSE {})

\* ------------------------------------------------------------------ Init
Init ==
    /\ dom \in InitTrees
    /\ meta = parseMeta(dom)
    /\ headers = TypedHeaders(dom)
    /\ headerAtParse = hasHeaderRow(dom)
    /\ rows = parseRows(dom)
    /\ frag = [i \in 1..Len(DataRows(dom)) |-> DataRows(dom)[i].node]
    /\ nextRowId = parseNextRowId(dom, 0)
    /\ issued = <<>>
    /\ pending = <<>>
    /\ detached = <<>>
    /\ calls = 0
    /\ last = [op |-> "construct", phase |-> "done", why |-> "ok", id |-> Undef,
               arg |-> EmptyObj, res |-> EmptyObj, ret |-> EmptyObj,
               idx |-> 0, pos |-> 0, dec |-> "none", slot |-> 0]

\* construction on the parser's trees
InitParse ==
    /\ dom \in ParseTrees
    /\ meta = parseMeta(dom)
    /\ headers = TypedHeaders(dom)
    /\ headerAtParse = hasHeaderRow(dom)
    /\ rows = parseRows(dom)
    /\ frag = [i \in 1..Len(DataRows(dom)) |-> DataRows(dom)[i].node]
    /\ nextRowId = parseNextRowId(dom, 0)
    /\ issued = <<>>
    /\ pending = <<>>
    /\ detached = <<>>
    /\ calls = 0
    /\ last = [op |-> "construct", phase |-> "done", why |-> "ok", id |-> Undef,
               arg |-> EmptyObj, res |-> EmptyObj, ret |-> EmptyObj,
               idx |-> 0, pos |-> 0, dec |-> "none", slot |-> 0]

\* ------------------------------------------------------- commit helpers
\* the tail shared by addRow and addRowAsync: push, render, return
CommitAdd(op, rowData, res, newRow) ==
    /\ rows' = Append(rows, newRow)
    /\ frag' = Append(frag, dom.fresh)
    /\ dom' = addRowToDOM(dom, newRow, headers)
    /\ last' = Step(op, "done", "ok", Get(newRow, "id"), rowData, res, newRow,
                    Len(rows) + 1, Len(BodyTrs(dom)) + 1)

PendingAdds == Len(SelectSeq(pending, LAMBDA p : p.op = "add"))

CanAdd(rowData) ==
    /\ Len(rows) + PendingAdds < MaxRows
    /\ Len(dom.rows) + PendingAdds < MaxDomRows
    /\ UsesCounter(rowData) => nextRowId < MaxNextId

\* ------------------------------------------------------- synchronous API
addRow(rowData) ==
    /\ CanAdd(rowData)
    /\ nextRowId' = IF UsesCounter(rowData) THEN nextRowId + 1 ELSE nextRowId
    /\ issued' = IF UsesCounter(rowData)
                 THEN Append(issued, Get(CandidateRow(rowData, headers, nextRowId), "id"))
                 ELSE issued
    /\ CommitAdd("addRow", rowData, EmptyObj, CandidateRow(rowData, headers, nextRowId))
    /\ UNCHANGED <<meta, headers, headerAtParse, pending, detached>>

updateRow(id, updates) ==
    LET idx == FindIndex(rows, id) IN
    /\ IF idx = 0
       THEN /\ last' = Step("updateRow", "done", "missing", id, updates, EmptyObj,
                            EmptyObj, 0, 0)
            /\ UNCHANGED <<rows, frag, dom>>
       ELSE /\ rows' = [rows EXCEPT ![idx] = ObjectAssign(@, updates)]
            /\ UNCHANGED frag
            /\ dom' = updateRowInDOM(dom, ObjectAssign(rows[idx], updates), idx, headers)
            /\ last' = Step("updateRow", "done", "ok", id, updates, EmptyObj,
                            EmptyObj, idx, TouchedPos(dom, idx))
    /\ UNCHANGED <<meta, headers, headerAtParse, issued, nextRowId, pending, detached>>

deleteRow(id) ==
    LET idx == FindIndex(rows, id) IN
    /\ IF idx = 0
       THEN /\ last' = Step("deleteRow", "done", "missing", id, EmptyObj, EmptyObj,
                            EmptyObj, 0, 0)
            /\ UNCHANGED <<rows, frag, dom, pending, detached>>
       ELSE /\ rows' = RemoveAt(rows, idx)
            /\ frag' = RemoveAt(frag, idx)
            /\ dom' = deleteRowFromDOM(dom, idx)
            /\ detached' = DetachedAfterSplice(rows, detached, pending, idx)
            /\ pending' = PendingAfterSplice(detached, pending, idx)
            /\ last' = Step("deleteRow", "done", "ok", id, EmptyObj, EmptyObj,
                            EmptyObj, idx, TouchedPos(dom, idx))
    /\ UNCHANGED <<meta, headers, headerAtParse, issued, nextRowId>>

\* parseTable throws before it touches the headers or the rows when a
\* hidden input has neither id nor name: tableObject stays as it was
refresh ==
    IF parseHiddenThrows(dom)
    THEN /\ last' = Step("refresh", "threw", "Hidden input found without id or name attribute",
                         Undef, EmptyObj, EmptyObj, EmptyObj, 0, 0)
         /\ UNCHANGED <<dom, meta, headers, headerAtParse, issued, rows, frag, nextRowId,
                        pending, detached>>
    ELSE /\ meta' = parseMeta(dom)
         /\ headers' = TypedHeaders(dom)
         /\ headerAtParse' = hasHeaderRow(dom)
         /\ rows' = parseRows(dom)
         /\ frag' = [i \in 1..Len(DataRows(dom)) |-> DataRows(dom)[i].node]
         /\ nextRowId' = parseNextRowId(dom, nextRowId)
         /\ detached' = DetachedAfterRefresh(rows, detached, pending)
         /\ pending' = PendingAfterRefresh(detached, pending)
         /\ last' = Step("refresh", "done", "ok", Undef, EmptyObj, EmptyObj, EmptyObj, 0, 0)
         /\ UNCHANGED <<dom, issued>>

\* ------------------------------------------------------ asynchronous API
\* Each async call with a decision function is two steps: the part before
\* the `await` (Start) and the part after it (Resolve).  phase is "done" for
\* a call that returned without suspending, "suspended" after Start and
\* "resumed" for a call that returned after its decision resolved.
\* an addRowAsync that pushes and renders its candidate before it awaits
addRowAsyncStartEager(rowData) ==
    /\ Len(pending) < MaxPending
    /\ CanAdd(rowData)
    /\ nextRowId' = IF UsesCounter(rowData) THEN nextRowId + 1 ELSE nextRowId
    /\ issued' = IF UsesCounter(rowData)
                 THEN Append(issued, Get(CandidateRow(rowData, headers, nextRowId), "id"))
                 ELSE issued
    /\ pending' = Append(pending,
            Call("add", Get(CandidateRow(rowData, headers, nextRowId), "id"), 0,
                 NoRef, CandidateRow(rowData, headers, nextRowId), rowData))
    /\ rows' = Append(rows, CandidateRow(rowData, headers, nextRowId))
    /\ frag' = Append(frag, dom.fresh)
    /\ dom' = addRowToDOM(dom, CandidateRow(rowData, headers, nextRowId), headers)
    /\ last' = Step("addRowAsync", "suspended", "ok",
                    Get(CandidateRow(rowData, headers, nextRowId), "id"), rowData,
                    EmptyObj, EmptyObj, 0, 0)
    /\ UNCHANGED <<meta, headers, headerAtParse, detached>>

addRowAsyncStart(rowData) ==
    /\ Len(pending) < MaxPending
    /\ CanAdd(rowData)
    /\ nextRowId' = IF UsesCounter(rowData) THEN nextRowId + 1 ELSE nextRowId
    /\ issued' = IF UsesCounter(rowData)
                 THEN Append(issued, Get(CandidateRow(rowData, headers, nextRowId), "id"))
                 ELSE issued
    /\ pending' = Append(pending,
            Call("add", Get(CandidateRow(rowData, headers, nextRowId), "id"), 0,
                 NoRef, CandidateRow(rowData, headers, nextRowId), rowData))
    /\ last' = Step("addRowAsync", "suspended", "ok",
                    Get(CandidateRow(rowData, headers, nextRowId), "id"), rowData,
                    EmptyObj, EmptyObj, 0, 0)
    /\ UNCHANGED <<dom, meta, headers, headerAtParse, rows, frag, detached>>

addRowAsyncResolve(i, approved, result) ==
    /\ pending[i].op = "add"
    /\ pending' = RemoveAt(pending, i)
    /\ IF Cancelled(approved)
       THEN /\ last' = Resumed(Step("addRowAsync", "resumed", "cancelled", pending[i].id,
                            pending[i].updates, EmptyObj, EmptyObj, 0, 0), approved, i)
            /\ UNCHANGED <<rows, frag, dom>>
       ELSE /\ rows' = Append(rows, ObjectAssign(pending[i].row, result))
            /\ frag' = Append(frag, dom.fresh)
            /\ dom' = addRowToDOM(dom, ObjectAssign(pending[i].row, result), headers)
            /\ last' = Resumed(Step("addRowAsync", "resumed", "ok",
                            Get(ObjectAssign(pending[i].row, result), "id"),
                            pending[i].updates, result,
                            ObjectAssign(pending[i].row, result),
                            Len(rows) + 1, Len(BodyTrs(dom)) + 1), approved, i)
    /\ UNCHANGED <<meta, headers, headerAtParse, issued, nextRowId, detached>>

\* an updateRowAsync that awaits its decision function twice
updateRowAsyncStartTwice(id, updates) ==
    LET idx == FindIndex(rows, id) IN
    /\ Len(pending) < MaxPending
    /\ IF idx = 0
       THEN /\ last' = Step("updateRowAsync", "done", "missing", id, updates,
                            EmptyObj, EmptyObj, 0, 0)
            /\ UNCHANGED pending
       ELSE /\ pending' = pending \o
                    <<Call("upd", id, idx, [live |-> TRUE, at |-> idx], EmptyObj, updates),
                      Call("upd", id, idx, [live |-> TRUE, at |-> idx], EmptyObj, updates)>>
            /\ last' = Step("updateRowAsync", "suspended", "ok", id, updates,
                            EmptyObj, EmptyObj, idx, 0)
    /\ UNCHANGED <<dom, meta, headers, headerAtParse, issued, rows, frag, nextRowId, detached>>

updateRowAsyncStart(id, updates) ==
    LET idx == FindIndex(rows, id) IN
    /\ Len(pending) < MaxPending
    /\ IF idx = 0
       THEN /\ last' = Step("updateRowAsync", "done", "missing", id, updates,
                            EmptyObj, EmptyObj, 0, 0)
            /\ UNCHANGED pending
       ELSE /\ pending' = Append(pending,
                    Call("upd", id, idx, [live |-> TRUE, at |-> idx], EmptyObj, updates))
            /\ last' = Step("updateRowAsync", "suspended", "ok", id, updates,
                            EmptyObj, EmptyObj, idx, 0)
    /\ UNCHANGED <<dom, meta, headers, headerAtParse, issued, rows, frag, nextRowId, detached>>

\* the row object a suspended updateRowAsync holds, as it is now
HeldRow(p) == IF p.ref.live THEN rows[p.ref.at] ELSE detached[p.ref.at]

updateRowAsyncResolve(i, approved, result) ==
    LET p == pending[i]
        rest == RemoveAt(pending, i)
        merged == ObjectAssign(HeldRow(p), AppliedUpdates(p.updates, result))
        det == IF p.ref.live THEN detached ELSE [detached EXCEPT ![p.ref.at] = merged]
    IN
    /\ p.op = "upd"
    /\ pending' = CompactPending(detached, rest)
    /\ IF Cancelled(approved)
       THEN /\ last' = Resumed(Step("updateRowAsync", "resumed", "cancelled", p.id, p.updates,
                            EmptyObj, EmptyObj, 0, 0), approved, i)
            /\ detached' = CompactDetached(detached, rest)
            /\ UNCHANGED <<rows, frag, dom>>
       ELSE /\ rows' = IF p.ref.live THEN [rows EXCEPT ![p.ref.at] = merged] ELSE rows
            /\ UNCHANGED frag
            /\ detached' = CompactDetached(det, rest)
            /\ dom' = updateRowInDOM(dom, merged, p.rowIndex, headers)
            /\ last' = Resumed(Step("updateRowAsync", "resumed", "ok", p.id, p.updates, result,
                            merged, IF p.ref.live THEN p.ref.at ELSE 0,
                            TouchedPos(dom, p.rowIndex)), approved, i)
    /\ UNCHANGED <<meta, headers, headerAtParse, issued, nextRowId>>

deleteRowAsyncStart(id) ==
    LET idx == FindIndex(rows, id) IN
    /\ Len(pending) < MaxPending
    /\ IF idx = 0
       THEN /\ last' = Step("deleteRowAsync", "done", "missing", id, EmptyObj,
                            EmptyObj, EmptyObj, 0, 0)
            /\ UNCHANGED pending
       ELSE /\ pending' = Append(pending, Call("del", id, idx, NoRef, EmptyObj, EmptyObj))
            /\ last' = Step("deleteRowAsync", "suspended", "ok", id, EmptyObj,
                            EmptyObj, EmptyObj, idx, 0)
    /\ UNCHANGED <<dom, meta, headers, headerAtParse, issued, rows, frag, nextRowId, detached>>

\* a deleteRowAsync that splices the Model but leaves the render for later
deleteRowAsyncResolveNoRender(i, approved) ==
    LET p == pending[i]
        rest == RemoveAt(pending, i)
        hit == p.rowIndex <= Len(rows)
    IN
    /\ p.op = "del"
    /\ IF Cancelled(approved)
       THEN /\ last' = Resumed(Step("deleteRowAsync", "resumed", "cancelled", p.id, EmptyObj,
                            EmptyObj, EmptyObj, 0, 0), approved, i)
            /\ pending' = rest
            /\ UNCHANGED <<rows, frag, dom, detached>>
       ELSE /\ rows' = IF hit THEN RemoveAt(rows, p.rowIndex) ELSE rows
            /\ frag' = IF hit THEN RemoveAt(frag, p.rowIndex) ELSE frag
            /\ dom' = dom
            /\ detached' = IF hit THEN DetachedAfterSplice(rows, detached, rest, p.rowIndex)
                           ELSE detached
            /\ pending' = IF hit THEN PendingAfterSplice(detached, rest, p.rowIndex)
                          ELSE rest
            /\ last' = Resumed(Step("deleteRowAsync", "resumed", "ok", p.id, EmptyObj, EmptyObj,
                            IF hit THEN rows[p.rowIndex] ELSE EmptyObj,
                            IF hit THEN p.rowIndex ELSE 0,
                            TouchedPos(dom, p.rowIndex)), approved, i)
    /\ UNCHANGED <<meta, headers, headerAtParse, issued, nextRowId>>

\* rows.splice(rowIndex, 1) removes nothing when rowIndex is past the end
deleteRowAsyncResolve(i, approved) ==
    LET p == pending[i]
        rest == RemoveAt(pending, i)
        hit == p.rowIndex <= Len(rows)
    IN
    /\ p.op = "del"
    /\ IF Cancelled(approved)
       THEN /\ last' = Resumed(Step("deleteRowAsync", "resumed", "cancelled", p.id, EmptyObj,
                            EmptyObj, EmptyObj, 0, 0), approved, i)
            /\ pending' = rest
            /\ UNCHANGED <<rows, frag, dom, detached>>
       ELSE /\ rows' = IF hit THEN RemoveAt(rows, p.rowIndex) ELSE rows
            /\ frag' = IF hit THEN RemoveAt(frag, p.rowIndex) ELSE frag
            /\ dom' = deleteRowFromDOM(dom, p.rowIndex)
            /\ detached' = IF hit THEN DetachedAfterSplice(rows, detached, rest, p.rowIndex)
                           ELSE detached
            /\ pending' = IF hit THEN PendingAfterSplice(detached, rest, p.rowIndex)
                          ELSE rest
            /\ last' = Resumed(Step("deleteRowAsync", "resumed", "ok", p.id, EmptyObj, EmptyObj,
                            IF hit THEN rows[p.rowIndex] ELSE EmptyObj,
                            IF hit THEN p.rowIndex ELSE 0,
                            TouchedPos(dom, p.rowIndex)), approved, i)
    /\ UNCHANGED <<meta, headers, headerAtParse, issued, nextRowId>>

\* ------------------------------------------------------------------ Next
\* every step is one call (or one resumption) and is counted
Tick == calls < MaxCalls /\ calls' = calls + 1

AddRow == Tick /\ \E rowData \in AddInputs(headers) : addRow(rowData)

UpdateRow == Tick /\ \E id \in LookupIds(rows), u \in UpdateInputs(headers) : updateRow(id, u)

DeleteRow == Tick /\ \E id \in LookupIds(rows) : deleteRow(id)

Refresh == Tick /\ refresh

AddRowAsyncStart == Tick /\ \E rowData \in AddInputs(headers) : addRowAsyncStart(rowData)

AddRowAsyncResolve ==
    Tick /\ \E i \in 1..Len(pending) :
        /\ pending[i].op = "add"
        /\ \E d \in AddDecisions(headers, pending[i].row) :
                addRowAsyncResolve(i, d[1], d[2])

UpdateRowAsyncStart == Tick /\ \E id \in LookupIds(rows), u \in UpdateInputs(headers) : updateRowAsyncStart(id, u)

UpdateRowAsyncResolve ==
    Tick /\ \E i \in 1..Len(pending) :
        /\ pending[i].op = "upd"
        /\ \E d \in UpdateDecisions(headers, pending[i].updates) :
                updateRowAsyncResolve(i, d[1], d[2])

DeleteRowAsyncStart == Tick /\ \E id \in LookupIds(rows) : deleteRowAsyncStart(id)

DeleteRowAsyncResolve ==
    Tick /\ \E i \in 1..Len(pending), approved \in BOOLEAN : deleteRowAsyncResolve(i, approved)

Next ==
    \/ AddRow
    \/ UpdateRow
    \/ DeleteRow
    \/ Refresh
    \/ AddRowAsyncStart
    \/ AddRowAsyncResolve
    \/ UpdateRowAsyncStart
    \/ UpdateRowAsyncResolve
    \/ DeleteRowAsyncStart
    \/ DeleteRowAsyncResolve

Spec == Init /\ [][Next]_vars

\* -------------------------------------------- the parser's specification
\* construction on ParseTrees followed by refresh and addRow calls
ParseTick == calls < MaxParseCalls /\ calls' = calls + 1

RefreshParsed == ParseTick /\ refresh

AddRowParsed == ParseTick /\ \E rowData \in AddInputs(headers) : addRow(rowData)

NextParse ==
    \/ RefreshParsed
    \/ AddRowParsed

SpecParse == InitParse /\ [][NextParse]_vars

\* ------------------------------------------- synchronous calls only
NextSync ==
    \/ AddRow
    \/ UpdateRow
    \/ DeleteRow
    \/ Refresh

SpecSync == Init /\ [][NextSync]_vars

\* ------------------------------------------- construction and edge inputs
MaxEdgeRows == 1
MaxInputs == 2
MaxEdgeCalls == 2

\* hidden inputs a table may hold: with an id, with a name only, with both
\* (sharing the key of the first) and with neither
InputKinds ==
    {HiddenInput("h1", "", "v"), HiddenInput("", "n1", ""),
     HiddenInput("h1", "n1", "w"), HiddenInput("", "", "v")}

EdgeTables ==
    {[t EXCEPT !.inputs = ins, !.name = "orders"] :
        t \in {u \in InitTrees : ~u.hasTbody /\ Len(u.rows) <= MaxEdgeRows},
        ins \in SeqsUpTo(InputKinds, MaxInputs)}

\* what document.getElementById(tableId) can give: nothing, an element that
\* is not a table, a table
NoElement ==
    [hasThead |-> FALSE, thead |-> <<>>, hasTbody |-> FALSE, rows |-> <<>>,
     fresh |-> 1, tag |-> "", id |-> "", name |-> "", inputs |-> <<>>]

Documents ==
    {NoElement, [NoElement EXCEPT !.tag = "div", !.id = "t"]} \cup EdgeTables

\* the error the constructor throws on this document, "" when it returns
ConstructError(d) ==
    IF d.tag = "" THEN "Table with id not found"
    ELSE IF d.tag # "table" THEN "Element with id is not a table"
    ELSE IF parseHiddenThrows(d) THEN "Hidden input found without id or name attribute"
    ELSE ""

\* the fields of an instance whose constructor threw: there is none
NoMeta == [id |-> "", name |-> "", hidden |-> <<>>]

InitEdge ==
    /\ dom \in Documents
    /\ issued = <<>>
    /\ pending = <<>>
    /\ detached = <<>>
    /\ calls = 0
    /\ IF ConstructError(dom) # ""
       THEN /\ meta = NoMeta
            /\ headers = <<>>
            /\ headerAtParse = FALSE
            /\ rows = <<>>
            /\ frag = <<>>
            /\ nextRowId = 0
            /\ last = Step("construct", "threw", ConstructError(dom), Undef, EmptyObj,
                           EmptyObj, EmptyObj, 0, 0)
       ELSE /\ meta = parseMeta(dom)
            /\ headers = TypedHeaders(dom)
            /\ headerAtParse = hasHeaderRow(dom)
            /\ rows = parseRows(dom)
            /\ frag = [i \in 1..Len(DataRows(dom)) |-> DataRows(dom)[i].node]
            /\ nextRowId = parseNextRowId(dom, 0)
            /\ last = Step("construct", "done", "ok", Undef, EmptyObj, EmptyObj,
                           EmptyObj, 0, 0)

\* a caller has an instance only when the constructor returned
Constructed == ~(last.op = "construct" /\ last.phase = "threw")

\* row data with an id key that is falsy, and one with a caller's id
AddEdgeInputs(hs) ==
    {EmptyObj, [k \in {"id"} |-> S("")], [k \in {"id"} |-> Undef],
     [k \in {"id"} |-> S("r1")]}

\* update sets, with and without the key id
UpdateEdgeInputs(hs) ==
    {[k \in {"id"} |-> S("r9")]}
    \cup (IF Len(hs) >= 1
          THEN {[k \in {Col(hs, 1)} |-> S("b")],
                [k \in {"id", Col(hs, 1)} |-> IF k = "id" THEN S("r9") ELSE S("b")]}
          ELSE {EmptyObj})

\* what a beforeUpdate decision resolves to: a veto, the proposal, a set
\* of its own carrying the key id
UpdateEdgeDecisions(hs, updates) ==
    {<<FALSE, EmptyObj>>, <<TRUE, updates>>, <<TRUE, [k \in {"id"} |-> S("r8")]>>}

\* addRowAsync(rowData) with beforeAdd undefined: the `if (beforeAdd)` block,
\* the only await of the function, is skipped and the body runs to its end
addRowAsyncDirect(rowData) ==
    /\ CanAdd(rowData)
    /\ nextRowId' = IF UsesCounter(rowData) THEN nextRowId + 1 ELSE nextRowId
    /\ issued' = IF UsesCounter(rowData)
                 THEN Append(issued, Get(CandidateRow(rowData, headers, nextRowId), "id"))
                 ELSE issued
    /\ rows' = Append(rows, CandidateRow(rowData, headers, nextRowId))
    /\ frag' = Append(frag, dom.fresh)
    /\ dom' = addRowToDOM(dom, CandidateRow(rowData, headers, nextRowId), headers)
    /\ last' = Step("addRowAsync", "done", "ok",
                    Get(CandidateRow(rowData, headers, nextRowId), "id"), rowData,
                    EmptyObj, CandidateRow(rowData, headers, nextRowId),
                    Len(rows) + 1, Len(BodyTrs(dom)) + 1)
    /\ UNCHANGED <<meta, headers, headerAtParse, pending, detached>>

\* an updateRowAsync without decision function that leaves the render out
updateRowAsyncDirectNoRender(id, updates) ==
    LET rowIndex == FindIndex(rows, id) IN
    /\ IF rowIndex = 0
       THEN /\ last' = Step("updateRowAsync", "done", "missing", id, updates,
                            EmptyObj, EmptyObj, 0, 0)
            /\ UNCHANGED <<rows, dom>>
       ELSE /\ rows' = [rows EXCEPT ![rowIndex] = ObjectAssign(@, updates)]
            /\ dom' = dom
            /\ last' = Step("updateRowAsync", "done", "ok", id, updates, EmptyObj,
                            EmptyObj, rowIndex, TouchedPos(dom, rowIndex))
    /\ UNCHANGED <<meta, headers, headerAtParse, issued, frag, nextRowId, pending, detached>>

\* updateRowAsync(id, updates) with beforeUpdate undefined
updateRowAsyncDirect(id, updates) ==
    LET rowIndex == FindIndex(rows, id) IN
    /\ IF rowIndex = 0
       THEN /\ last' = Step("updateRowAsync", "done", "missing", id, updates,
                            EmptyObj, EmptyObj, 0, 0)
            /\ UNCHANGED <<rows, dom>>
       ELSE /\ rows' = [rows EXCEPT ![rowIndex] = ObjectAssign(@, updates)]
            /\ dom' = updateRowInDOM(dom, ObjectAssign(rows[rowIndex], updates),
                                     rowIndex, headers)
            /\ last' = Step("updateRowAsync", "done", "ok", id, updates, EmptyObj,
                            EmptyObj, rowIndex, TouchedPos(dom, rowIndex))
    /\ UNCHANGED <<meta, headers, headerAtParse, issued, frag, nextRowId, pending, detached>>

\* deleteRowAsync(id) with beforeDelete undefined
deleteRowAsyncDirect(id) ==
    LET rowIndex == FindIndex(rows, id) IN
    /\ IF rowIndex = 0
       THEN /\ last' = Step("deleteRowAsync", "done", "missing", id, EmptyObj,
                            EmptyObj, EmptyObj, 0, 0)
            /\ UNCHANGED <<rows, frag, dom, pending, detached>>
       ELSE /\ rows' = RemoveAt(rows, rowIndex)
            /\ frag' = RemoveAt(frag, rowIndex)
            /\ dom' = deleteRowFromDOM(dom, rowIndex)
            /\ detached' = DetachedAfterSplice(rows, detached, pending, rowIndex)
            /\ pending' = PendingAfterSplice(detached, pending, rowIndex)
            /\ last' = Step("deleteRowAsync", "done", "ok", id, EmptyObj, EmptyObj,
                            EmptyObj, rowIndex, TouchedPos(dom, rowIndex))
    /\ UNCHANGED <<meta, headers, headerAtParse, issued, nextRowId>>

EdgeTick == Constructed /\ calls < MaxEdgeCalls /\ calls' = calls + 1

AddRowEdge == EdgeTick /\ \E rowData \in AddEdgeInputs(headers) : addRow(rowData)

UpdateRowEdge ==
    EdgeTick /\ \E id \in LookupIds(rows), u \in UpdateEdgeInputs(headers) : updateRow(id, u)

DeleteRowEdge == EdgeTick /\ \E id \in LookupIds(rows) : deleteRow(id)

RefreshEdge == EdgeTick /\ refresh

AddRowAsyncDirect ==
    EdgeTick /\ \E rowData \in AddEdgeInputs(headers) : addRowAsyncDirect(rowData)

UpdateRowAsyncDirect ==
    EdgeTick /\ \E id \in LookupIds(rows), u \in UpdateEdgeInputs(headers) :
                    updateRowAsyncDirect(id, u)

DeleteRowAsyncDirect == EdgeTick /\ \E id \in LookupIds(rows) : deleteRowAsyncDirect(id)

AddRowAsyncStartEdge ==
    EdgeTick /\ \E rowData \in AddEdgeInputs(headers) : addRowAsyncStart(rowData)

AddRowAsyncResolveEdge ==
    EdgeTick /\ \E i \in 1..Len(pending) :
        /\ pending[i].op = "add"
        /\ \E d \in AddDecisions(headers, pending[i].row) :
                addRowAsyncResolve(i, d[1], d[2])

UpdateRowAsyncStartEdge ==
    EdgeTick /\ \E id \in LookupIds(rows), u \in UpdateEdgeInputs(headers) :
                    updateRowAsyncStart(id, u)

UpdateRowAsyncResolveEdge ==
    EdgeTick /\ \E i \in 1..Len(pending) :
        /\ pending[i].op = "upd"
        /\ \E d \in UpdateEdgeDecisions(headers, pending[i].updates) :
                updateRowAsyncResolve(i, d[1], d[2])

DeleteRowAsyncStartEdge == EdgeTick /\ \E id \in LookupIds(rows) : deleteRowAsyncStart(id)

DeleteRowAsyncResolveEdge ==
    EdgeTick /\ \E i \in 1..Len(pending), approved \in BOOLEAN :
                    deleteRowAsyncResolve(i, approved)

NextEdge ==
    \/ AddRowEdge
    \/ UpdateRowEdge
    \/ DeleteRowEdge
    \/ RefreshEdge
    \/ AddRowAsyncDirect
    \/ UpdateRowAsyncDirect
    \/ DeleteRowAsyncDirect
    \/ AddRowAsyncStartEdge
    \/ AddRowAsyncResolveEdge
    \/ UpdateRowAsyncStartEdge
    \/ UpdateRowAsyncResolveEdge
    \/ DeleteRowAsyncStartEdge
    \/ DeleteRowAsyncResolveEdge

SpecEdge == InitEdge /\ [][NextEdge]_vars

\* ------------------------------------------- async calls to their results
\* calls are issued up to a bound; a decision function that was invoked may
\* resolve at any time, whatever else has been called since
MaxLiveCalls == 2

LiveTick == calls < MaxLiveCalls /\ calls' = calls + 1

AddRowAsyncCall == LiveTick /\ \E rowData \in AddInputs(headers) : addRowAsyncStart(rowData)

UpdateRowAsyncCall ==
    LiveTick /\ \E id \in LookupIds(rows), u \in UpdateInputs(headers) :
                    updateRowAsyncStart(id, u)

DeleteRowAsyncCall == LiveTick /\ \E id \in LookupIds(rows) : deleteRowAsyncStart(id)

DeleteRowCall == LiveTick /\ \E id \in LookupIds(rows) : deleteRow(id)

AddDecisionResolves ==
    /\ UNCHANGED calls
    /\ \E i \in 1..Len(pending) :
        /\ pending[i].op = "add"
        /\ \E d \in AddDecisions(headers, pending[i].row) :
                addRowAsyncResolve(i, d[1], d[2])

UpdateDecisionResolves ==
    /\ UNCHANGED calls
    /\ \E i \in 1..Len(pending) :
        /\ pending[i].op = "upd"
        /\ \E d \in UpdateDecisions(headers, pending[i].updates) :
                updateRowAsyncResolve(i, d[1], d[2])

DeleteDecisionResolves ==
    /\ UNCHANGED calls
    /\ \E i \in 1..Len(pending), approved \in BOOLEAN : deleteRowAsyncResolve(i, approved)

NextLive ==
    \/ AddRowAsyncCall
    \/ UpdateRowAsyncCall
    \/ DeleteRowAsyncCall
    \/ DeleteRowCall
    \/ AddDecisionResolves
    \/ UpdateDecisionResolves
    \/ DeleteDecisionResolves

\* the assumption that every decision function eventually resolves; the
\* continuation after the await then runs as a microtask
DecisionsResolve ==
    /\ WF_vars(AddDecisionResolves)
    /\ WF_vars(UpdateDecisionResolves)
    /\ WF_vars(DeleteDecisionResolves)

SpecLive == Init /\ [][NextLive]_vars /\ DecisionsResolve

\* ----------------------------------------------- vocabulary of the claims
\* The tree's data rows, header row excluded: the rows outside an explicit
\* header container, minus the leading row when the table has no such
\* container and the parse took its first row for the header.
TreeHeaderCount(d) ==
    IF d.hasThead THEN (IF d.hasTbody THEN 0 ELSE Len(d.thead))
    ELSE IF headerAtParse THEN 1 ELSE 0

TreeDataRows(d) ==
    [i \in 1..(Len(BodyTrs(d)) - TreeHeaderCount(d)) |-> BodyTrs(d)[i + TreeHeaderCount(d)]]

\* position among the tree's data rows of the fragment at position pos
TreeDataIndex(d, pos) == pos - TreeHeaderCount(d)

\* Model and tree agree on row count and on every cell
Agree(rws, d, hs) ==
    /\ Len(rws) = Len(TreeDataRows(d))
    /\ \A i \in 1..Len(rws), c \in 1..Len(hs) :
        /\ c <= Len(TreeDataRows(d)[i].cells)
        /\ TreeDataRows(d)[i].cells[c].text = String(Get(rws[i], hs[c].name))

CrudOps == {"addRow", "updateRow", "deleteRow",
            "addRowAsync", "updateRowAsync", "deleteRowAsync"}

\* the step just taken is a call that returned success
Succeeded(l) == l.op \in CrudOps /\ l.why = "ok" /\ l.phase \in {"done", "resumed"}

IdPresent(rws, id) == \E i \in 1..Len(rws) : Get(rws[i], "id") = id

\* ------------------------------------------------------------------- C1
\* C1: after every successful add/update/delete call (async ones once they
\* have returned), the Model has as many rows as the tree has data rows and
\* every cell of tree data row i shows the string rendering of Model row
\* i's value for that column.
C1_ModelTreeAgree ==
    (Succeeded(last) /\ pending = <<>>) => Agree(rows, dom, headers)

\* ------------------------------------------------------------------- C2
\* C2: the fragment a successful create, update or delete inserts, rewrites
\* or removes is the one whose position among the tree's data rows equals
\* the affected row's Model index, before and after the call; update and
\* delete always touch a fragment.
C2_PositionParity ==
    [][Succeeded(last') =>
        /\ last'.pos # 0
        /\ last'.op \in {"addRow", "addRowAsync"} =>
                TreeDataIndex(dom', last'.pos) = last'.idx
        /\ last'.op \in {"updateRow", "updateRowAsync"} =>
                /\ TreeDataIndex(dom, last'.pos) = last'.idx
                /\ TreeDataIndex(dom', last'.pos) = last'.idx
        /\ last'.op \in {"deleteRow", "deleteRowAsync"} =>
                TreeDataIndex(dom, last'.pos) = last'.idx]_vars

\* ------------------------------------------------------------------- C3
\* C3: addRow always succeeds and returns the finalized row; the Model is
\* the previous row sequence with that row appended, caller-supplied values
\* are kept with their types, and the tree gains exactly one fragment,
\* appended last, tagged with the row's id, with one cell per column in
\* column order.
C3_AddRowAppends ==
    [][last'.op = "addRow" =>
        /\ last'.why = "ok" /\ last'.phase = "done"
        /\ rows' = Append(rows, last'.ret)
        /\ \A k \in DOMAIN last'.arg : last'.ret[k] = last'.arg[k]
        /\ dom'.thead = dom.thead
        /\ Len(dom'.rows) = Len(dom.rows) + 1
        /\ SubSeq(dom'.rows, 1, Len(dom.rows)) = dom.rows
        /\ LET tr == dom'.rows[Len(dom'.rows)] IN
            /\ tr.hasId /\ tr.dataId = last'.ret["id"].v
            /\ Len(tr.cells) = Len(headers)
            /\ \A c \in 1..Len(headers) :
                /\ ~tr.cells[c].th
                /\ headers[c].type # "free" =>
                        tr.cells[c].text = last'.ret[headers[c].name].v]_vars

\* an addRow that was given an integer kept it as an integer
C3_Witness ==
    /\ last.op = "addRow"
    /\ Len(headers) = 2
    /\ headers[2].name \in DOMAIN last.arg
    /\ last.ret[headers[2].name] = N("30")
    /\ Len(rows) >= 2

\* ------------------------------------------------------------------- C4
\* C4: for an id that matches no row, updateRow, deleteRow, updateRowAsync
\* and deleteRowAsync report failure, change neither the Model nor the tree,
\* and the async variants do not suspend (the decision function is never
\* called).
C4_MissingId ==
    [][(/\ last'.op \in {"updateRow", "deleteRow", "updateRowAsync", "deleteRowAsync"}
        /\ last'.phase \in {"done", "suspended"}
        /\ ~IdPresent(rows, last'.id)) =>
        /\ last'.why = "missing"
        /\ last'.phase = "done"
        /\ UNCHANGED <<rows, dom, headers, headerAtParse, nextRowId, pending, detached>>]_vars

\* an async call failed on a missing id while the Model had rows
C4_Witness ==
    /\ last.op \in {"updateRowAsync", "deleteRowAsync"}
    /\ last.why = "missing"
    /\ Len(rows) > 0
    /\ ~IdPresent(rows, last.id)

\* ------------------------------------------------------------------- C5
\* C5: a successful updateRow(id, updates) changes only the first row with
\* identity id: the keys of updates take the supplied values, the row's
\* other keys keep theirs, the row keeps its position, the other rows and
\* the row count are unchanged, and in the tree that row's fragment (the
\* element frag links the row to), and no other, is rewritten.
C5_ModelPart(rws, rws2, l) ==
    /\ l.idx \in 1..Len(rws)
    /\ Get(rws[l.idx], "id") = l.id
    /\ \A j \in 1..(l.idx - 1) : Get(rws[j], "id") # l.id
    /\ Len(rws2) = Len(rws)
    /\ \A j \in 1..Len(rws) : j # l.idx => rws2[j] = rws[j]
    /\ DOMAIN rws2[l.idx] = (DOMAIN rws[l.idx]) \cup (DOMAIN l.arg)
    /\ \A k \in DOMAIN l.arg : rws2[l.idx][k] = l.arg[k]
    /\ \A k \in (DOMAIN rws[l.idx]) \ (DOMAIN l.arg) : rws2[l.idx][k] = rws[l.idx][k]

C5_UpdateRowFrame ==
    [][(last'.op = "updateRow" /\ last'.why = "ok") =>
        /\ C5_ModelPart(rows, rows', last')
        /\ Len(BodyTrs(dom')) = Len(BodyTrs(dom))
        /\ \E j \in 1..Len(BodyTrs(dom)) : BodyTrs(dom)[j].node = frag[last'.idx]
        /\ \A j \in 1..Len(BodyTrs(dom)) :
                IF BodyTrs(dom)[j].node = frag[last'.idx]
                THEN \A c \in 1..Min(Len(headers), Len(BodyTrs(dom)[j].cells)) :
                        headers[c].type # "free" =>
                            BodyTrs(dom')[j].cells[c].text =
                                Get(rows'[last'.idx], headers[c].name).v
                ELSE BodyTrs(dom')[j] = BodyTrs(dom)[j]]_vars

\* ------------------------------------------------------------------- C6
\* C6: a successful deleteRow(id) removes exactly the row with identity id
\* from the Model, leaves the other rows unchanged and in order, and
\* removes exactly one fragment from the tree, the deleted row's.
C6_DeleteRowFrame ==
    [][(last'.op = "deleteRow" /\ last'.why = "ok") =>
        /\ last'.idx \in 1..Len(rows)
        /\ Get(rows[last'.idx], "id") = last'.id
        /\ rows' = RemoveAt(rows, last'.idx)
        /\ \E j \in 1..Len(BodyTrs(dom)) :
                /\ BodyTrs(dom)[j].node = frag[last'.idx]
                /\ BodyTrs(dom') = RemoveAt(BodyTrs(dom), j)
        /\ Len(TreeDataRows(dom')) = Len(TreeDataRows(dom)) - 1]_vars

\* ------------------------------------------------------------------- C7
\* C7: when the decision function of an async call resolves to a falsy
\* value the call is cancelled: it reports null / false, and the Model's
\* rows and the tree are what they were just before the decision resolved
\* (a row that a cancelled deleteRowAsync was to delete is still there).
C7_CancelLeavesState ==
    [][last'.dec = "falsy" =>
        /\ last'.why = "cancelled"
        /\ last'.ret = EmptyObj
        /\ UNCHANGED <<rows, dom, headers, nextRowId>>
        /\ Len(pending') = Len(pending) - 1]_vars

\* a deleteRowAsync was vetoed and the row it named is still in the Model
C7_Witness ==
    /\ last.op = "deleteRowAsync"
    /\ last.dec = "falsy"
    /\ IdPresent(rows, last.id)

\* ------------------------------------------------------------------- C8
\* C8: the candidate of addRowAsync is the caller's fields plus the id plus
\* a default for every column the caller left out; when the decision
\* resolves to a row value, the committed row is the candidate with the
\* decision's fields merged over it, and that row is appended to the Model,
\* rendered as the tree's last fragment and returned.
C8_Candidate(cand, arg, hs) ==
    /\ "id" \in DOMAIN cand
    /\ \A k \in DOMAIN arg : cand[k] = arg[k]
    /\ \A c \in 1..Len(hs) :
        /\ hs[c].name \in DOMAIN cand
        /\ (hs[c].name \notin DOMAIN arg /\ \A b \in 1..(c - 1) : hs[b].name # hs[c].name)
                => cand[hs[c].name] = getDefaultValue(hs[c].type)

C8_AddAsyncMerges ==
    [][last'.op = "addRowAsync" =>
        /\ last'.phase = "suspended" =>
                C8_Candidate(pending'[Len(pending')].row, last'.arg, headers)
        /\ last'.dec = "truthy" =>
            LET cand == pending[last'.slot].row
                res == last'.res
                ret == last'.ret
                tr == dom'.rows[Len(dom'.rows)]
            IN  /\ last'.why = "ok"
                /\ DOMAIN ret = (DOMAIN cand) \cup (DOMAIN res)
                /\ \A k \in DOMAIN res : ret[k] = res[k]
                /\ \A k \in (DOMAIN cand) \ (DOMAIN res) : ret[k] = cand[k]
                /\ rows' = Append(rows, ret)
                /\ Len(dom'.rows) = Len(dom.rows) + 1
                /\ SubSeq(dom'.rows, 1, Len(dom.rows)) = dom.rows
                /\ tr.dataId = ret["id"].v
                /\ Len(tr.cells) = Len(headers)
                /\ \A c \in 1..Len(headers) :
                        headers[c].type # "free" =>
                            tr.cells[c].text = Get(ret, headers[c].name).v]_vars

\* a decision replaced the caller's name "b" by "Y" and the row was committed
C8_Witness ==
    /\ last.op = "addRowAsync"
    /\ last.dec = "truthy"
    /\ Len(headers) >= 1
    /\ headers[1].name \in DOMAIN last.arg
    /\ headers[1].name \in DOMAIN last.res
    /\ last.arg[headers[1].name] = S("b")
    /\ last.ret[headers[1].name] = S("Y")
    /\ rows # <<>> /\ rows[Len(rows)] = last.ret

\* ------------------------------------------------------------------- C9
\* C9: when updateRowAsync's decision resolves to a truthy value, that value
\* replaces the update set: exactly the decision's keys are written into
\* the row, and a key of the caller's proposal that the decision does not
\* carry is not applied.
C9_DecisionReplacesUpdates ==
    [][(last'.op = "updateRowAsync" /\ last'.dec = "truthy") =>
        LET p == pending[last'.slot]
            old == HeldRow(p)
            new == last'.ret
            res == last'.res
        IN  /\ last'.why = "ok"
            /\ p.updates = last'.arg
            /\ DOMAIN new = (DOMAIN old) \cup (DOMAIN res)
            /\ \A k \in DOMAIN res : new[k] = res[k]
            /\ \A k \in (DOMAIN old) \ (DOMAIN res) : new[k] = old[k]
            /\ p.ref.live => rows' = [rows EXCEPT ![p.ref.at] = new]
            /\ ~p.ref.live => rows' = rows]_vars

\* the decision dropped a key the caller proposed, and the row in the Model
\* does not carry the proposed value
C9_Witness ==
    /\ last.op = "updateRowAsync"
    /\ last.dec = "truthy"
    /\ last.idx \in 1..Len(rows)
    /\ \E k \in DOMAIN last.arg :
        /\ k \notin DOMAIN last.res
        /\ Get(rows[last.idx], k) # last.arg[k]
    /\ \E k \in DOMAIN last.res : Get(rows[last.idx], k) = last.res[k]

\* ------------------------------------------------------------------ C10
\* C10: a call that suspends on its decision function has changed neither
\* the Model's rows nor the tree; while it is suspended other calls run on
\* the unmodified Model, are not held back, and may commit first.
C10_SuspendedChangesNothing ==
    [][/\ last'.phase = "suspended" =>
            /\ UNCHANGED <<rows, dom, headers>>
            /\ Len(pending') = Len(pending) + 1
       /\ (last'.phase = "done" /\ pending # <<>>) =>
            /\ Len(pending') = Len(pending)
            /\ \A i \in 1..Len(pending) :
                    /\ pending'[i].op = pending[i].op
                    /\ pending'[i].rowIndex = pending[i].rowIndex
                    /\ pending'[i].row = pending[i].row
                    /\ pending'[i].updates = pending[i].updates]_vars

\* a synchronous delete committed while an async call was suspended
C10_Witness ==
    /\ pending # <<>>
    /\ last.op = "deleteRow"
    /\ last.why = "ok"
    /\ last.phase = "done"

\* ------------------------------------------------------------------ C11
\* C11: for an async call with a decision function the order of events is:
\* decision function invoked (once: the call suspends once and its record
\* leaves the suspended calls when it resumes), decision resolves, Model
\* mutation, tree render, result; the Model mutation and the render of a
\* call are one step: the tree after the step in which a call changes the
\* Model is the tree before that step with that call's render applied, and
\* no step that suspends changes the Model or the tree.
AsyncOps == {"addRowAsync", "updateRowAsync", "deleteRowAsync"}

PendingOpOf(op) ==
    CASE op = "addRowAsync" -> "add"
      [] op = "updateRowAsync" -> "upd"
      [] op = "deleteRowAsync" -> "del"
      [] OTHER -> "none"

C11_DecisionThenCommit ==
    [][/\ (rows' # rows \/ dom' # dom) => last'.phase \in {"done", "resumed"}
       /\ (last'.op \in AsyncOps /\ last'.phase = "suspended") =>
            /\ UNCHANGED <<rows, dom>>
            /\ Len(pending') = Len(pending) + 1
            /\ SubSeq(pending', 1, Len(pending)) = pending
            /\ pending'[Len(pending')].op = PendingOpOf(last'.op)
       /\ (last'.op \in AsyncOps /\ last'.phase = "resumed") =>
            /\ last'.slot \in 1..Len(pending)
            /\ pending[last'.slot].op = PendingOpOf(last'.op)
            /\ Len(pending') = Len(pending) - 1
            /\ last'.dec \in {"truthy", "falsy"}
            /\ last'.dec = "falsy" => UNCHANGED <<rows, dom>>
            /\ (last'.dec = "truthy" /\ last'.op = "addRowAsync") =>
                    /\ rows' = Append(rows, last'.ret)
                    /\ dom' = addRowToDOM(dom, last'.ret, headers)
            /\ (last'.dec = "truthy" /\ last'.op = "updateRowAsync") =>
                    dom' = updateRowInDOM(dom, last'.ret,
                                          pending[last'.slot].rowIndex, headers)
            /\ (last'.dec = "truthy" /\ last'.op = "deleteRowAsync") =>
                    /\ dom' = deleteRowFromDOM(dom, pending[last'.slot].rowIndex)
                    /\ last'.idx # 0 => rows' = RemoveAt(rows, last'.idx)]_vars

\* an approved deleteRowAsync removed a Model row and a fragment in its
\* resuming step
C11_Witness ==
    /\ last.op = "deleteRowAsync"
    /\ last.dec = "truthy"
    /\ last.idx # 0
    /\ last.pos # 0

\* ------------------------------------------------------------------ C12
\* C12: whenever deleteRowAsync(id, decide) returns true, the row removed
\* from the Model is the row with identity id and no other, and no fragment
\* other than that row's is removed from the tree, whatever calls committed
\* while the call was suspended.  (A call that finds the row already gone
\* and removes nothing is not counted against the claim here.)
C12_AsyncDeleteRemovesNamedRow ==
    [][(last'.op = "deleteRowAsync" /\ last'.dec = "truthy" /\ last'.why = "ok") =>
        \/ ~IdPresent(rows, last'.id) /\ rows' = rows /\ dom' = dom
        \/ /\ last'.idx \in 1..Len(rows)
           /\ Get(rows[last'.idx], "id") = last'.id
           /\ rows' = RemoveAt(rows, last'.idx)
           /\ \A j \in 1..Len(BodyTrs(dom)) :
                (\A k \in 1..Len(BodyTrs(dom')) :
                      BodyTrs(dom')[k].node # BodyTrs(dom)[j].node)
                => BodyTrs(dom)[j].node = frag[last'.idx]]_vars

\* ------------------------------------------------------------------ C13
\* C13: whenever updateRowAsync(id, updates, decide) returns true, the Model
\* contains a row with identity id that carries the applied updates, and a
\* fragment that was rewritten is the fragment of that row; the call never
\* reports success after rewriting another row's fragment or after updating
\* a row that is no longer in the Model.
C13_AsyncUpdateHitsNamedRow ==
    [][(last'.op = "updateRowAsync" /\ last'.dec = "truthy" /\ last'.why = "ok") =>
        /\ IdPresent(rows', last'.id)
        /\ \A k \in DOMAIN last'.res :
                Get(rows'[FindIndex(rows', last'.id)], k) = last'.res[k]
        /\ Len(BodyTrs(dom')) = Len(BodyTrs(dom))
        /\ \A j \in 1..Len(BodyTrs(dom)) :
                BodyTrs(dom')[j] # BodyTrs(dom)[j] =>
                    BodyTrs(dom)[j].node = frag'[FindIndex(rows', last'.id)]]_vars

\* ------------------------------------------------------------------ C14
\* C14: refresh() is idempotent: a refresh that directly follows a refresh
\* (the tree untouched in between) leaves the Model as the first one built
\* it (headers with names and types, row ids and row values, the rows'
\* fragments) and leaves the synthetic-id counter at the same value.
Parsed(l) == l.op \in {"construct", "refresh"}

C15_Name(cells, i) ==
    IF Trim(cells[i].text) # "" THEN ToLowerCase(Trim(cells[i].text))
    ELSE ColumnName(i)

C15_Named(cells) == [i \in 1..Len(cells) |-> C15_Name(cells, i)]

C15_Columns(d) ==
    IF d.hasThead /\ d.thead # <<>> THEN C15_Named(d.thead[1].cells)
    ELSE IF d.rows = <<>> THEN <<>>
    ELSE IF ThCells(d.rows[1]) # <<>> THEN C15_Named(ThCells(d.rows[1]))
    ELSE IF \A i \in 1..Len(d.rows[1].cells) :
                /\ Trim(d.rows[1].cells[i].text) # ""
                /\ ~IsNumeric(Trim(d.rows[1].cells[i].text))
         THEN C15_Named(d.rows[1].cells)
    ELSE [i \in 1..Len(d.rows[1].cells) |-> ColumnName(i)]

C15_ColumnDerivation ==
    Parsed(last) => [i \in 1..Len(headers) |-> headers[i].name] = C15_Columns(dom)

\* ------------------------------------------------------------------ C16
\* C16: after construction or refresh the Model's rows are, in tree order,
\* exactly the tree's rows minus the detected header row: every row of the
\* tree that is not the header row has its Model row, for every tree shape.
C16_RowsAreTreeRowsMinusHeader ==
    Parsed(last) =>
        /\ Len(rows) = Len(TreeDataRows(dom))
        /\ frag = [i \in 1..Len(TreeDataRows(dom)) |-> TreeDataRows(dom)[i].node]

\* ------------------------------------------------------------------ C17
\* C17: detectColumnType follows the first-match order: no values gives
\* Text ("string"); else a value with '<' or '>' or longer than 100
\* characters gives Raw ("free"); else every value empty or true/false in
\* any case gives Boolean; else, over the non-empty values, all numeric
\* gives Integer ("number") unless one has a decimal point (Decimal), and
\* anything else gives Text.  {1,2,3} is Integer, {1.5,2} Decimal,
\* {true,false,""} Boolean, {<b>x</b>} Raw and {a,1} Text.
C17_Type(values) ==
    LET n == Len(values)
        nonEmpty == {i \in 1..n : values[i] # ""}
    IN  IF n = 0 THEN "string"
        ELSE IF \E i \in 1..n : HasComplexContent(values[i]) THEN "free"
        ELSE IF \A i \in 1..n : ToLowerCase(values[i]) \in {"", "true", "false"}
             THEN "boolean"
        ELSE IF \A i \in nonEmpty : IsNumeric(values[i])
             THEN (IF \E i \in nonEmpty : HasDot(values[i]) THEN "decimal" ELSE "number")
        ELSE "string"

C17_Example(values) ==
    CASE values = <<"1", "2", "3">> -> "number"
      [] values = <<"1.5", "2">> -> "decimal"
      [] values = <<"true", "false", "">> -> "boolean"
      [] values = <<"<b>x</b>">> -> "free"
      [] values = <<"<b>x</b>", "true", "1">> -> "free"
      [] values = <<"a", "1">> -> "string"
      [] OTHER -> C17_Type(values)

C17_DetectionOrder ==
    Parsed(last) =>
        \A c \in 1..Len(headers) :
            /\ headers[c].type = C17_Type(ColumnData(dom, Len(headers), c))
            /\ headers[c].type = C17_Example(ColumnData(dom, Len(headers), c))

\* a column holding markup next to a boolean and a number was typed Raw
C17_Witness ==
    /\ Parsed(last)
    /\ Len(headers) = 1
    /\ ColumnData(dom, 1, 1) = <<"<b>x</b>", "true", "1">>
    /\ headers[1].type = "free"

\* ------------------------------------------------------------------ C18
\* C18: value coercion at parse time: in an Integer or Decimal column an
\* empty cell gives null and a non-empty one its parsed number; in a
\* Boolean column the value is true exactly when the text is "true" in any
\* case and false otherwise (an empty cell is false, never null); in Text
\* and Raw columns the value is the trimmed text unchanged.
C18_Value(text, type) ==
    IF type \in {"number", "decimal"}
    THEN IF text = "" THEN Null
         ELSE N(IF type = "number" THEN ParseInt(text) ELSE ParseFloat(text))
    ELSE IF type = "boolean"
    THEN (IF ToLowerCase(text) = "true" THEN B("true") ELSE B("false"))
    ELSE S(text)

C18_ValueCoercion ==
    Parsed(last) =>
        \A i \in 1..Len(rows) :
            LET cells == DataRows(dom)[i].cells
                n == Min(Len(cells), Len(headers))
            IN  \A c \in 1..n :
                    (\A b \in (c + 1)..n : headers[b].name # headers[c].name) =>
                        /\ headers[c].name \in DOMAIN rows[i]
                        /\ rows[i][headers[c].name] =
                                C18_Value(Trim(cells[c].text), headers[c].type)

\* an empty cell of a Boolean column was parsed to false, next to a true
C18_Witness ==
    /\ Parsed(last)
    /\ Len(headers) = 1
    /\ headers[1].type = "boolean"
    /\ Len(rows) = 2
    /\ ColumnData(dom, 1, 1) = <<"", "true">>
    /\ rows[1][headers[1].name] = B("false")
    /\ rows[2][headers[1].name] = B("true")

\* ------------------------------------------------------------------ C19
\* C19: every row the parser produces has as id the identity attribute of
\* its tree node when that attribute is present and non-empty, and row_<k>
\* otherwise, k being the row's 0-based position among the data rows,
\* whatever the column names are.
C19_ParsedRowId ==
    Parsed(last) =>
        \A i \in 1..Len(rows) :
            Get(rows[i], "id") =
                S(IF DataRows(dom)[i].hasId /\ DataRows(dom)[i].dataId # ""
                  THEN DataRows(dom)[i].dataId
                  ELSE RowIdOf(i - 1))

\* ------------------------------------------------------------------ C20
\* C20: a synthetic identity row_<n> that addRow or addRowAsync assigns
\* (the caller gave no id) is not the identity of any row the parser put
\* into the Model: stated for the call that directly follows construction
\* or refresh, when every row of the Model is the parser's.
C20_SyntheticIdFresh ==
    [][(/\ Parsed(last)
        /\ last'.op \in {"addRow", "addRowAsync"}
        /\ last'.phase \in {"done", "suspended"}
        /\ UsesCounter(last'.arg)) =>
            /\ last'.id = S(RowIdOf(nextRowId))
            /\ ~IdPresent(rows, last'.id)]_vars

\* ------------------------------------------------------------------ C21
\* C21: in every reachable state every row of the Model has a value entry
\* for every column name: rows created by addRow / addRowAsync, rows the
\* parser produced (also from a tree row with fewer cells than columns) and
\* rows after any update.
C21_RowsCoverColumns ==
    \A i \in 1..Len(rows), c \in 1..Len(headers) : headers[c].name \in DOMAIN rows[i]

\* ------------------------------------------------------------------ C22
\* the data-id of the <tr> that is the fragment of Model row i equals the
\* row's id
Tagged(rws, fr, d, i) ==
    \E j \in 1..Len(BodyTrs(d)) :
        /\ BodyTrs(d)[j].node = fr[i]
        /\ BodyTrs(d)[j].hasId
        /\ BodyTrs(d)[j].dataId = String(Get(rws[i], "id"))

UpdateOps == {"updateRow", "updateRowAsync"}

\* C22: no updateRow or updateRowAsync step, whatever keys its update set
\* or its decision result carries (the key id included), changes the id of
\* a row of the Model, and a row whose fragment carried the row's id as its
\* identity tag before the step still does after it.
C22_IdImmutable ==
    [][last'.op \in UpdateOps /\ last'.why = "ok" =>
        /\ Len(rows') = Len(rows)
        /\ \A i \in 1..Len(rows) :
            /\ Get(rows'[i], "id") = Get(rows[i], "id")
            /\ Tagged(rows, frag, dom, i) => Tagged(rows', frag', dom', i)]_vars

\* ------------------------------------------------------------------ C23
\* the three documents the constructor must reject
BadDocument(d) ==
    \/ d.tag = ""
    \/ d.tag # "table"
    \/ \E i \in 1..Len(d.inputs) : d.inputs[i].id = "" /\ d.inputs[i].name = ""

\* C23: construction throws exactly when the locator finds no node, the
\* node is not a table, or a hidden input of the table has neither id nor
\* name, and otherwise succeeds; after a throw there is no instance, so no
\* call is ever made on one; and a call that finds no row for its id or
\* whose decision vetoes it returns, it does not throw.
C23_ConstructionErrors ==
    /\ [](last.op = "construct" => (last.phase = "threw" <=> BadDocument(dom)))
    /\ [](last.op = "construct" /\ last.phase # "threw" =>
            last.phase = "done" /\ meta = parseMeta(dom) /\ rows = parseRows(dom))
    /\ [][Constructed]_vars
    /\ [](last.why \in {"missing", "cancelled"} =>
            last.op \in CrudOps /\ last.phase \in {"done", "resumed"})

\* a table whose first hidden input has a key and whose second has neither
\* id nor name was rejected
C23_Witness ==
    /\ last.op = "construct"
    /\ last.phase = "threw"
    /\ dom.tag = "table"
    /\ Len(dom.inputs) = 2
    /\ HiddenKey(dom.inputs[1]) # ""
    /\ HiddenKey(dom.inputs[2]) = ""

\* ------------------------------------------------------------------ C24
PendingOps(pnd) == [j \in 1..Len(pnd) |-> pnd[j].op]

\* one step of the engine seen as a move of the per-call state machine;
\* counterFrame says what the suspending step may do to the counter
C24_Move(counterFrame) ==
    /\ Len(pending') \in {Len(pending) - 1, Len(pending), Len(pending) + 1}
    \* Pending(lookup) -> Suspended: one call record more, nothing mutated
    /\ last'.phase = "suspended" <=> Len(pending') = Len(pending) + 1
    /\ last'.phase = "suspended" =>
        /\ last'.op \in AsyncOps
        /\ pending' = Append(pending, pending'[Len(pending')])
        /\ pending'[Len(pending')].op = PendingOpOf(last'.op)
        /\ rows' = rows /\ dom' = dom /\ headers' = headers /\ meta' = meta
        /\ counterFrame
    \* Suspended -> Committing -> Done, or Suspended -> Cancelled: the call
    \* record is consumed, so the call resumes once
    /\ last'.phase = "resumed" <=> Len(pending') = Len(pending) - 1
    /\ last'.phase = "resumed" =>
        /\ last'.op \in AsyncOps
        /\ last'.slot \in 1..Len(pending)
        /\ pending[last'.slot].op = PendingOpOf(last'.op)
        /\ PendingOps(pending') = RemoveAt(PendingOps(pending), last'.slot)
        /\ last'.why \in {"ok", "cancelled"}
        /\ last'.why = "cancelled" <=> last'.dec = "falsy"
        /\ last'.why = "cancelled" =>
                rows' = rows /\ dom' = dom /\ nextRowId' = nextRowId
    \* Pending(lookup) -> Done(failure): no row for the id, no suspension
    /\ last'.op \in AsyncOps /\ last'.phase = "done" =>
        /\ last'.why = "missing"
        /\ rows' = rows /\ dom' = dom /\ nextRowId' = nextRowId

\* every suspended call is eventually resumed
C24_Delivers == (pending # <<>>) ~> (pending = <<>>)

\* C24 (as amended): every async call goes lookup -> suspended -> commit
\* and success, or -> cancelled, or fails its lookup without suspending; it
\* suspends at most once, resumes once, never commits when cancelled, and
\* with decision functions that resolve every suspended call is eventually
\* resumed; a suspended call has mutated neither the Model nor the tree,
\* but an addRowAsync without a caller id has advanced nextRowId by one.
C24_AsyncPath ==
    /\ [][C24_Move(IF last'.op = "addRowAsync" /\ UsesCounter(last'.arg)
                   THEN nextRowId' = nextRowId + 1
                   ELSE nextRowId' = nextRowId)]_vars
    /\ C24_Delivers

\* C24 as stated: the same, with a suspended call having mutated nothing,
\* the counter included
C24_AsyncPathNothingMutated ==
    /\ [][C24_Move(nextRowId' = nextRowId)]_vars
    /\ C24_Delivers

\* an addRowAsync that took its id from the counter was resumed and
\* committed, and no call is left suspended
C24_Witness ==
    /\ last.op = "addRowAsync"
    /\ last.phase = "resumed"
    /\ last.why = "ok"
    /\ UsesCounter(last.arg)
    /\ pending = <<>>

\* ------------------------------------------------------------------ C25
SyncOf(op) ==
    CASE op = "addRowAsync" -> "addRow"
      [] op = "updateRowAsync" -> "updateRow"
      [] op = "deleteRowAsync" -> "deleteRow"
      [] OTHER -> op

\* what the synchronous call leaves behind and returns from the current
\* state: addRow(arg), updateRow(id, arg), deleteRow(id)
C25_Sync(op, id, arg) ==
    LET idx == FindIndex(rows, id)
        cand == CandidateRow(arg, headers, nextRowId)
        same == [rows |-> rows, dom |-> dom, nextRowId |-> nextRowId,
                 why |-> "missing", ret |-> EmptyObj]
    IN  CASE op = "addRow" ->
                [rows |-> Append(rows, cand), dom |-> addRowToDOM(dom, cand, headers),
                 nextRowId |-> IF UsesCounter(arg) THEN nextRowId + 1 ELSE nextRowId,
                 why |-> "ok", ret |-> cand]
          [] op = "updateRow" /\ idx # 0 ->
                [rows |-> [rows EXCEPT ![idx] = ObjectAssign(@, arg)],
                 dom |-> updateRowInDOM(dom, ObjectAssign(rows[idx], arg), idx, headers),
                 nextRowId |-> nextRowId, why |-> "ok", ret |-> EmptyObj]
          [] op = "deleteRow" /\ idx # 0 ->
                [rows |-> RemoveAt(rows, idx), dom |-> deleteRowFromDOM(dom, idx),
                 nextRowId |-> nextRowId, why |-> "ok", ret |-> EmptyObj]
          [] OTHER -> same

\* C25: an async call that returns without having suspended (no decision
\* function, or no row for its id) leaves the Model's rows, the tree and the
\* counter exactly as the synchronous call with the same arguments does
\* from the same state, returns the same result, and adds no suspended
\* call: lookup and commit are one step. (The step of either call is
\* compared with the same outcome.)
C25_DirectEqualsSync ==
    [][last'.op \in CrudOps /\ last'.phase = "done" =>
        LET o == C25_Sync(SyncOf(last'.op), last'.id, last'.arg) IN
        /\ rows' = o.rows
        /\ dom' = o.dom
        /\ nextRowId' = o.nextRowId
        /\ last'.why = o.why
        /\ last'.ret = o.ret
        /\ Len(pending') = Len(pending)
        /\ headers' = headers /\ meta' = meta]_vars

\* an updateRowAsync without decision function has found its row and
\* committed in its one step
C25_Witness ==
    /\ last.op = "updateRowAsync"
    /\ last.phase = "done"
    /\ last.why = "ok"
    /\ last.idx >= 1
    /\ DOMAIN last.arg # {}

RowsWithId(rws, id) == {i \in 1..Len(rws) : Get(rws[i], "id") = id}

Earliest(rws, id) == CHOOSE i \in RowsWithId(rws, id) : \A j \in RowsWithId(rws, id) : i <= j

TrNodes(d) == {BodyTrs(d)[j].node : j \in 1..Len(BodyTrs(d))}

\* C27: when several rows of the Model have the id, a successful
\* updateRow(id) merges into the earliest of them and leaves every other
\* row as it was, a successful deleteRow(id) removes the earliest and keeps
\* the others in order, and the fragment rewritten or removed is the
\* fragment of that earliest row.
C27_EarliestDuplicate ==
    [][/\ last'.op \in {"updateRow", "deleteRow"}
       /\ last'.why = "ok"
       /\ Cardinality(RowsWithId(rows, last'.id)) >= 2
       =>
       LET e == Earliest(rows, last'.id) IN
       /\ last'.idx = e
       /\ last'.op = "updateRow" =>
            /\ rows' = [rows EXCEPT ![e] = ObjectAssign(@, last'.arg)]
            /\ Len(BodyTrs(dom')) = Len(BodyTrs(dom))
            /\ \A j \in 1..Len(BodyTrs(dom)) :
                    BodyTrs(dom')[j] # BodyTrs(dom)[j] => BodyTrs(dom)[j].node = frag[e]
       /\ last'.op = "deleteRow" =>
            /\ rows' = RemoveAt(rows, e)
            /\ TrNodes(dom') = TrNodes(dom) \ {frag[e]}]_vars

\* ------------------------------------------------------------------ C28
AddOps == {"addRow", "addRowAsync"}

\* the rows a parse gives the positional id row_<index>
Positional(d) ==
    {i \in 1..Len(DataRows(d)) : ~(DataRows(d)[i].hasId /\ DataRows(d)[i].dataId # "")}

\* C28: nextRowId never decreases; after construction and after every
\* refresh it is at least index + 1 for each row given a positional id; an
\* addRow or addRowAsync call whose input has no id raises it by exactly
\* one (when the call is made) and one with an id leaves it; update,
\* delete and the resumption of a suspended call leave it as it is.
C28_CounterMonotone ==
    /\ [](Parsed(last) => \A i \in Positional(dom) : nextRowId >= i)
    /\ [][/\ nextRowId' >= nextRowId
          /\ last'.op \in AddOps /\ last'.phase \in {"done", "suspended"} =>
                nextRowId' = nextRowId + (IF UsesCounter(last'.arg) THEN 1 ELSE 0)
          /\ last'.op \in CrudOps \ AddOps \/ last'.phase = "resumed" =>
                nextRowId' = nextRowId
          /\ last'.op = "refresh" =>
                nextRowId' = Max(nextRowId, parseNextRowId(dom, 0))]_vars

\* a refresh kept a counter that is above what the tree alone gives
C28_Witness ==
    /\ last.op = "refresh"
    /\ nextRowId > parseNextRowId(dom, 0)

\* ------------------------------------------------------------------ C29
\* C29: the row an addRow, or an addRowAsync without decision function,
\* returns has a non-empty string id: the caller's id when the input has a
\* truthy one (the counter then stays), and row_<counter> otherwise (the
\* counter then advances), also when the input has the key id with an
\* empty or undefined value.
C29_ReturnedRowHasId ==
    [][last'.op \in AddOps /\ last'.phase = "done" /\ last'.why = "ok" =>
        LET id == Get(last'.ret, "id") IN
        /\ id.t = "str"
        /\ id.v # ""
        /\ IF Truthy(Get(last'.arg, "id"))
           THEN id = last'.arg["id"] /\ nextRowId' = nextRowId
           ELSE id = S(RowIdOf(nextRowId)) /\ nextRowId' = nextRowId + 1]_vars

\* ------------------------------------------------------------------ C30
\* C30: in every state reached by add, update and delete calls (and
\* refreshes) from a parsed table, hasHeaderRow() evaluated on the tree
\* gives what it gave during the parse that built the current Model, so the
\* offset update and delete add to a Model index is the parse's offset.
C30_HeaderOffsetStable == hasHeaderRow(dom) = headerAtParse

\* ------------------------------------------------------------------ C31
\* C31: the ids given to the rows of any two addRow / addRowAsync calls
\* made without a caller-supplied id differ, whatever was called or
\* resumed in between; an addRowAsync takes its id and advances the counter
\* in the step that suspends it, changing nothing else, and its
\* cancellation changes neither the Model, the tree nor the counter, so
\* the value it took is never given again.
C31_SyntheticIdsDistinct ==
    /\ [](\A i, j \in 1..Len(issued) : i # j => issued[i] # issued[j])
    /\ [][/\ last'.op = "addRowAsync" /\ last'.phase = "suspended"
                /\ UsesCounter(last'.arg) =>
                /\ nextRowId' = nextRowId + 1
                /\ issued' = Append(issued, last'.id)
                /\ rows' = rows /\ dom' = dom /\ headers' = headers /\ meta' = meta
          /\ last'.op = "addRowAsync" /\ last'.why = "cancelled" =>
                /\ nextRowId' = nextRowId
                /\ issued' = issued
                /\ rows' = rows /\ dom' = dom /\ headers' = headers /\ meta' = meta]_vars

\* ------------------------------------------------------------------ C32
\* C32: after any sequence of addRow, updateRow and deleteRow calls on a
\* parsed table, a refresh() gives a Model with the same columns (names and
\* types) and the same rows (number, ids, order, values) as the Model just
\* before it.
C32_RefreshRoundTrip ==
    [][last'.op = "refresh" /\ last'.why = "ok" =>
        /\ headers' = headers
        /\ rows' = rows]_vars

\* ------------------------------------------------------------------ C33
\* the trimmed texts of the data cells of column c, as the parse reads them
C33_Cells(c) == ColumnData(dom, Len(headers), c)

C33_AllEmpty(c) ==
    /\ Len(C33_Cells(c)) >= 1
    /\ \A k \in 1..Len(C33_Cells(c)) : C33_Cells(c)[k] = ""

\* the column's name is that of no other column and not "id", so the row's
\* entry under it is this column's value
C33_OwnName(c) ==
    /\ headers[c].name # "id"
    /\ \A d \in 1..Len(headers) : d # c => headers[d].name # headers[c].name

\* C33: after a parse, a column with at least one data cell whose cells are
\* all empty has type boolean, and every row with a cell in it has the
\* value false there; no column with a data cell and only empty cells has
\* type string (the numeric step's "no non-empty value" branch is never
\* the one that decides).
C33_EmptyColumnIsBoolean ==
    Parsed(last) =>
        \A c \in 1..Len(headers) :
            C33_AllEmpty(c) =>
                /\ headers[c].type = "boolean"
                /\ headers[c].type # "string"
                /\ C33_OwnName(c) =>
                        \A i \in 1..Len(rows) :
                            Len(DataRows(dom)[i].cells) >= c =>
                                rows[i][headers[c].name] = B("false")

\* a parsed table whose only column has two data cells, both empty
C33_Witness ==
    /\ Parsed(last)
    /\ Len(headers) = 1
    /\ Len(C33_Cells(1)) = 2
    /\ C33_AllEmpty(1)
    /\ Len(rows) = 2

====
